---- MODULE Spec2Model ----
(***************************************************************************)
(* Audit-event retrieval, aggregation and session reconstruction of the    *)
(* coder-audit-simple scripts.                                             *)
(*                                                                         *)
(*   connect_count.py  get_connection_data: the cursor-paginated fetch     *)
(*                     loop with its counting fold (Spec, PagedSpec,       *)
(*                     FairSpec)                                           *)
(*                     and its caller main (MainSpec, TwoRunSpec)          *)
(*   coder-last.py     CoderLast.get_user_sessions: the start/stop pairing *)
(*                     fold (LastSpec, TimedSpec, KeySpec, PairedSpec),    *)
(*                     two calls of it (TwoCallSpec, FrameSpec) and main   *)
(*                     (LastMainSpec)                                      *)
(*   get_and_bump_ttl_workspaces.py                                        *)
(*                     extract_workspace_activity and main (TtlSpec)       *)
(*   the reading of one event, field by field (EventSpec)                  *)
(*                                                                         *)
(* Python values: strings are TLA+ strings, None (also the value of .get   *)
(* on an absent key) is the string None below, the defaultdict counters    *)
(* are functions whose DOMAIN is the set of keys present, the dict of      *)
(* ongoing sessions is a sequence of entries in insertion order, lists are *)
(* sequences.                                                              *)
(***************************************************************************)
EXTENDS Integers, Sequences, FiniteSets, TLC

VARIABLES
    \* ---- connect_count.py, get_connection_data ----
    pc,                 \* "loop": at the top of `while True`; "done": returned
    after_id,           \* cursor for the next request
    previous_after_id,  \* cursor of the request issued last
    action_counts,      \* defaultdict(int): action -> count
    login_counts,       \* defaultdict(int): username -> count
    connection_count,   \* int
    \* ---- the upstream audit API and the observer of the run ----
    server,             \* "any": answers anything; "paged": serves `store`
    store,              \* the events a paged server holds, in delivery order
    pages,              \* history: the audit_logs of every page processed
    requests,           \* history: number of requests issued
    exit,               \* history: which `break` ended the loop
    \* ---- coder-last.py, CoderLast.get_user_sessions ----
    lpc,                \* "call": called; "fold": in the for loop; "done": returned
    limit,              \* argument `limit`
    logs,               \* what get_audit_logs returned (delivery order)
    sorted_logs,        \* sorted(logs, key=time)
    idx,                \* number of events of sorted_logs folded so far
    user_sessions,      \* dict: session_key -> ongoing session
    sessions,           \* list of session records
    result,             \* sessions[:limit], the returned list
    \* ---- the callers: main of connect_count.py, coder-last.py and ----
    \* ---- get_and_bump_ttl_workspaces.py                          ----
    displayed,          \* what display_tables was given: <<>> or <<counters>>
    failed,             \* history: the audit-log request of the run failed
    stdout,             \* lines printed to standard output
    stderr,             \* lines printed to standard error
    status,             \* exit status of the process, "" while it runs
    previous_run,       \* history: an earlier, finished run (<<>> if none)
    \* ---- get_and_bump_ttl_workspaces.py, extract_workspace_activity ----
    tpc,                \* "call", "loop", "done" (returned), "raised"; "idle"
    tlogs,              \* logs.get('audit_logs', [])
    tidx,               \* number of events of tlogs handled so far
    workspace_latest,   \* dict: workspace_id -> latest activity record
    activities,         \* the returned list
    lookups,            \* history: outcome of every workspace-detail lookup
    \* ---- a single event read field by field ----
    input,              \* the event as the API delivered it
    output              \* what the reading code made of it

fetchVars == <<pc, after_id, previous_after_id, action_counts, login_counts,
               connection_count, server, store, pages, requests, exit>>
lastVars == <<lpc, limit, logs, sorted_logs, idx, user_sessions, sessions, result>>
mainVars == <<displayed, failed, stdout, stderr, status, previous_run>>
ttlVars == <<tpc, tlogs, tidx, workspace_latest, activities, lookups>>
eventVars == <<input, output>>
\* what the steps of get_connection_data leave alone
exceptFetch == <<lastVars, mainVars, ttlVars, eventVars>>
\* what the steps of get_user_sessions leave alone
exceptLast == <<fetchVars, mainVars, ttlVars, eventVars>>
vars == <<fetchVars, lastVars, mainVars, ttlVars, eventVars>>

None == "None"

(***************************************************************************)
(* Bounds of the model.                                                    *)
(***************************************************************************)
\* page size sent as params['limit'] (100 in the source), scaled down
PageLimit == 2
\* requests one run may issue under the bounded specifications
MaxRequests == 3
\* events a paged server holds
MaxStore == 4

\* Python ints are unbounded; the counters stop at CountCap, which no run of a
\* bounded specification reaches (at most MaxRequests pages of PageLimit events).
CountCap == MaxRequests * PageLimit

Sat(n) == IF n > CountCap THEN CountCap ELSE n

Min(a, b) == IF a < b THEN a ELSE b

Last(s) == s[Len(s)]

RECURSIVE Flatten(_)
Flatten(ss) == IF ss = <<>> THEN <<>> ELSE Head(ss) \o Flatten(Tail(ss))

(***************************************************************************)
(* connect_count.py: the counting fold, lines 104-117.                     *)
(***************************************************************************)
connection_actions ==
    {"login", "start_workspace_connection", "start", "connect_workspace",
     "workspace_connection", "workspace.connect"}

\* d[key] = 1 written for d[key] += 1
IncrementAssign(d, key) ==
    IF key \in DOMAIN d THEN [d EXCEPT ![key] = 1] ELSE d @@ (key :> 1)

\* d[key] += 1 on a defaultdict(int)
Increment(d, key) ==
    IF key \in DOMAIN d THEN [d EXCEPT ![key] = Sat(@ + 1)] ELSE d @@ (key :> 1)

\* log.get('user', {}).get('username', 'unknown')
LoginUser(log) == IF log.username = None THEN "unknown" ELSE log.username

\* login_counts[user] = action_counts[action] written for login_counts[user] += 1
ProcessLogRunningTotal(log, c) ==
    [action_counts |-> Increment(c.action_counts, log.action),
     login_counts |->
        IF log.action = "login"
        THEN LET n == Increment(c.action_counts, log.action)["login"]
             IN IF LoginUser(log) \in DOMAIN c.login_counts
                THEN [c.login_counts EXCEPT ![LoginUser(log)] = n]
                ELSE c.login_counts @@ (LoginUser(log) :> n)
        ELSE c.login_counts,
     connection_count |->
        IF log.action \in connection_actions
        THEN Sat(c.connection_count + 1)
        ELSE c.connection_count]

\* one pass of the body of `for log in logs`
ProcessLog(log, c) ==
    [action_counts |-> Increment(c.action_counts, log.action),
     login_counts |->
        IF log.action = "login"
        THEN Increment(c.login_counts, LoginUser(log))
        ELSE c.login_counts,
     connection_count |->
        IF log.action \in connection_actions
        THEN Sat(c.connection_count + 1)
        ELSE c.connection_count]

\* an event with the id of the event after it is skipped
RECURSIVE ProcessLogsDeduplicated(_, _)
ProcessLogsDeduplicated(ls, c) ==
    IF ls = <<>> THEN c
    ELSE IF Len(ls) >= 2 /\ ls[1].id = ls[2].id
         THEN ProcessLogsDeduplicated(Tail(ls), c)
         ELSE ProcessLogsDeduplicated(Tail(ls), ProcessLog(Head(ls), c))

RECURSIVE ProcessLogs(_, _)
ProcessLogs(ls, c) ==
    IF ls = <<>> THEN c ELSE ProcessLogs(Tail(ls), ProcessLog(Head(ls), c))

Counters == [action_counts |-> action_counts, login_counts |-> login_counts,
             connection_count |-> connection_count]

\* lines 43-49: the counters before the loop
ZeroCounters == [action_counts |-> <<>>, login_counts |-> <<>>, connection_count |-> 0]

(***************************************************************************)
(* The upstream audit API (spec section 6).                                *)
(***************************************************************************)
\* what an unconstrained server may put into a page
AnyEvents ==
    {[id |-> "X", action |-> "login", username |-> "alice"],
     [id |-> "Y", action |-> "login", username |-> None],
     [id |-> None, action |-> "start", username |-> "alice"]}

RECURSIVE SeqsUpTo(_, _)
SeqsUpTo(S, n) ==
    IF n = 0 THEN {<<>>}
    ELSE LET shorter == SeqsUpTo(S, n - 1)
         IN shorter \cup {Append(s, e) : s \in {t \in shorter : Len(t) = n - 1}, e \in S}

AnyPages == SeqsUpTo(AnyEvents, PageLimit)

\* ids of the events of a paged server: pairwise distinct, "" is an id that
\* Python treats as false
StoreIds == <<"e1", "e2", "e3", "e4", "e5", "e6", "e7", "e8">>
StoreKinds ==
    {[action |-> "login", username |-> "alice"],
     [action |-> "login", username |-> None],
     [action |-> "start", username |-> "bob"]}

\* the stores: n events, the z-th (if z > 0) with the id ""
Stores ==
    UNION {UNION {{[i \in 1..n |->
                      [id |-> IF i = z THEN "" ELSE StoreIds[i],
                       action |-> k[i].action,
                       username |-> k[i].username]] : k \in [1..n -> StoreKinds]}
                  : z \in 0..n}
           : n \in 0..MaxStore}

\* position of the event with this id, 0 if there is none
IndexOfId(s, id) ==
    IF \E i \in 1..Len(s) : s[i].id = id
    THEN CHOOSE i \in 1..Len(s) : s[i].id = id
    ELSE 0

\* the next at most `lim` events after params['after_id'], from the start of the
\* range when it is omitted
ServePage(s, params) ==
    LET from == IF "after_id" \in DOMAIN params
                THEN IF IndexOfId(s, params.after_id) = 0
                     THEN Len(s) + 1
                     ELSE IndexOfId(s, params.after_id) + 1
                ELSE 1
    IN SubSeq(s, from, Min(Len(s), from + params.limit - 1))

Responses(params) ==
    IF server = "paged"
    THEN {[status_code |-> 200, audit_logs |-> ServePage(store, params)]}
    ELSE {[status_code |-> 500, audit_logs |-> <<>>]}
         \cup {[status_code |-> 200, audit_logs |-> p] : p \in AnyPages}

(***************************************************************************)
(* connect_count.py: the pagination loop, lines 65-129.                    *)
(***************************************************************************)
\* Python truth value of a cursor: None and "" are false
Truthy(v) == v # None /\ v # ""

\* the comparison of line 67 made after the assignment of line 71
CycleDetectedAfterAssign == after_id # None

\* line 67
CycleDetected == after_id = previous_after_id /\ after_id # None

\* lines 39-40: the time range of the run, from the dates given to it
start_iso == "2024-01-01T00:00:00Z"
end_iso == "2024-01-07T23:59:59Z"

\* lines 74-82
Params ==
    IF Truthy(after_id)
    THEN [limit |-> PageLimit, after_time |-> start_iso, before_time |-> end_iso,
          after_id |-> after_id]
    ELSE [limit |-> PageLimit, after_time |-> start_iso, before_time |-> end_iso]

\* line 128
NextCursor(ls) == Last(ls).id

\* the observer's record of a processed page
Record(bounded, p) == IF bounded THEN Append(pages, p) ELSE pages
Count(bounded) == IF bounded THEN requests + 1 ELSE requests

\* lines 67-69: the cursor repeated, break
CycleBreak ==
    /\ pc = "loop"
    /\ CycleDetected
    /\ pc' = "done"
    /\ exit' = "cycle"
    /\ UNCHANGED <<after_id, previous_after_id, action_counts, login_counts,
                   connection_count, server, store, pages, requests, exceptFetch>>

\* lines 71-93: request, non-200 answer, break
FetchError(bounded) ==
    /\ pc = "loop"
    /\ ~CycleDetected
    /\ bounded => requests < MaxRequests
    /\ \E r \in Responses(Params) :
        /\ r.status_code # 200
        /\ previous_after_id' = after_id
        /\ requests' = Count(bounded)
        /\ pc' = "done"
        /\ exit' = "error"
    /\ UNCHANGED <<after_id, action_counts, login_counts, connection_count,
                   server, store, pages, exceptFetch>>

\* lines 71-101: request, empty page, break
EmptyPage(bounded) ==
    /\ pc = "loop"
    /\ ~CycleDetected
    /\ bounded => requests < MaxRequests
    /\ \E r \in Responses(Params) :
        /\ r.status_code = 200
        /\ r.audit_logs = <<>>
        /\ previous_after_id' = after_id
        /\ requests' = Count(bounded)
        /\ pc' = "done"
        /\ exit' = "empty"
    /\ UNCHANGED <<after_id, action_counts, login_counts, connection_count,
                   server, store, pages, exceptFetch>>

\* lines 71-125: request, page shorter than the limit, count it, break
ShortPage(bounded) ==
    /\ pc = "loop"
    /\ ~CycleDetected
    /\ bounded => requests < MaxRequests
    /\ \E r \in Responses(Params) :
        /\ r.status_code = 200
        /\ r.audit_logs # <<>>
        /\ Len(r.audit_logs) < Params.limit
        /\ previous_after_id' = after_id
        /\ requests' = Count(bounded)
        /\ LET c == ProcessLogs(r.audit_logs, Counters)
           IN /\ action_counts' = c.action_counts
              /\ login_counts' = c.login_counts
              /\ connection_count' = c.connection_count
        /\ pages' = Record(bounded, r.audit_logs)
        /\ pc' = "done"
        /\ exit' = "short"
    /\ UNCHANGED <<after_id, server, store, exceptFetch>>

\* lines 71-129: request, full page, count it, move the cursor, loop
FullPage(bounded) ==
    /\ pc = "loop"
    /\ ~CycleDetected
    /\ bounded => requests < MaxRequests
    /\ \E r \in Responses(Params) :
        /\ r.status_code = 200
        /\ r.audit_logs # <<>>
        /\ ~(Len(r.audit_logs) < Params.limit)
        /\ previous_after_id' = after_id
        /\ requests' = Count(bounded)
        /\ LET c == ProcessLogs(r.audit_logs, Counters)
           IN /\ action_counts' = c.action_counts
              /\ login_counts' = c.login_counts
              /\ connection_count' = c.connection_count
        /\ pages' = Record(bounded, r.audit_logs)
        /\ after_id' = NextCursor(r.audit_logs)
    /\ UNCHANGED <<pc, exit, server, store, exceptFetch>>

(***************************************************************************)
(* coder-last.py: timestamps.  A timestamp is the ISO-8601 string of the   *)
(* event; Timeline lists the well-formed ones of the model in ascending    *)
(* order, each with the seconds since 2024-01-01T00:00:00Z that            *)
(* datetime.fromisoformat gives it and the text strftime('%a %b %d %H:%M') *)
(* gives it.  The strings have one fixed width, so                         *)
(* Python's string comparison orders them as Timeline does; the empty      *)
(* string (the default of log.get('time', '')) sorts before all of them.   *)
(***************************************************************************)
Timeline ==
    <<[text |-> "2024-01-01T09:00:00Z", seconds |-> 32400,
       display |-> "Mon Jan 01 09:00"],
      [text |-> "2024-01-01T11:30:00Z", seconds |-> 41400,
       display |-> "Mon Jan 01 11:30"],
      [text |-> "2024-01-01T11:30:45Z", seconds |-> 41445,
       display |-> "Mon Jan 01 11:30"],
      [text |-> "2024-01-02T10:29:59Z", seconds |-> 124199,
       display |-> "Tue Jan 02 10:29"],
      [text |-> "2024-01-06T09:00:00Z", seconds |-> 464400,
       display |-> "Sat Jan 06 09:00"]>>

\* whether datetime.fromisoformat accepts the string
Parses(t) == \E i \in 1..Len(Timeline) : Timeline[i].text = t

Seconds(t) == Timeline[CHOOSE i \in 1..Len(Timeline) : Timeline[i].text = t].seconds

\* the place of a time string in Python's string order
TimeRank(t) ==
    IF t = "" THEN 0 ELSE CHOOSE i \in 1..Len(Timeline) : Timeline[i].text = t

\* f"{n:02d}"
TwoDigits(n) == IF 0 <= n /\ n < 10 THEN "0" \o ToString(n) ELSE ToString(n)

\* the minutes taken from the whole duration, % 3600 left out
format_durationAllMinutes(start_time, end_time) ==
    IF ~Parses(start_time) THEN "unknown"
    ELSE IF ~Truthy(end_time) THEN "still logged in"
    ELSE IF ~Parses(end_time) THEN "unknown"
    ELSE LET duration == Seconds(end_time) - Seconds(start_time)
             hours == duration \div 3600
             minutes == duration \div 60
         IN "(" \o TwoDigits(hours) \o ":" \o TwoDigits(minutes) \o ")"

\* lines 43-56
format_duration(start_time, end_time) ==
    IF ~Parses(start_time) THEN "unknown"
    ELSE IF ~Truthy(end_time) THEN "still logged in"
    ELSE IF ~Parses(end_time) THEN "unknown"
    ELSE LET duration == Seconds(end_time) - Seconds(start_time)
             hours == duration \div 3600
             minutes == (duration % 3600) \div 60
         IN "(" \o TwoDigits(hours) \o ":" \o TwoDigits(minutes) \o ")"

(***************************************************************************)
(* coder-last.py: CoderLast.get_user_sessions, lines 58-128.               *)
(***************************************************************************)
\* workspace_name[:24], lines 106 and 118
TerminalWidth == 24

Truncate(str, n) == IF Len(str) <= n THEN str ELSE SubSeq(str, 1, n)

\* a dict in insertion order: a sequence of [key, value] entries
Keys(d) == {d[i].key : i \in 1..Len(d)}
Get(d, k) == d[CHOOSE i \in 1..Len(d) : d[i].key = k].value
\* d.setdefault(k, v) written for d[k] = v
PutIfAbsent(d, k, v) ==
    IF k \in Keys(d) THEN d ELSE Append(d, [key |-> k, value |-> v])
\* a list of ongoing sessions instead of a dict
PutAppend(d, k, v) == Append(d, [key |-> k, value |-> v])
\* d[k] = v: an existing key keeps its place
Put(d, k, v) ==
    IF k \in Keys(d)
    THEN [i \in 1..Len(d) |-> IF d[i].key = k THEN [key |-> k, value |-> v] ELSE d[i]]
    ELSE Append(d, [key |-> k, value |-> v])
\* the del forgotten
DelForgotten(d, k) == d
\* del d[k]
Del(d, k) == SelectSeq(d, LAMBDA entry : entry.key # k)

\* sorted(logs, key=lambda x: x.get('time', '')): stable, ascending (line 75)
RECURSIVE InsertByTime(_, _)
InsertByTime(srt, log) ==
    IF srt = <<>> THEN <<log>>
    ELSE IF TimeRank(Last(srt).time) <= TimeRank(log.time) THEN Append(srt, log)
    ELSE Append(InsertByTime(SubSeq(srt, 1, Len(srt) - 1), log), Last(srt))

\* the sort of line 75 left out: the logs folded in delivery order
DeliveryOrder(ls) == ls

RECURSIVE SortByTime(_)
SortByTime(ls) ==
    IF ls = <<>> THEN <<>>
    ELSE InsertByTime(SortByTime(SubSeq(ls, 1, Len(ls) - 1)), Last(ls))

\* the sort of line 126 left out
Unsorted(ss) == ss

\* sessions.sort(key=lambda x: x['start_time'], reverse=True): stable,
\* descending (line 126)
RECURSIVE InsertByStartDesc(_, _)
InsertByStartDesc(srt, ses) ==
    IF srt = <<>> THEN <<ses>>
    ELSE IF TimeRank(Last(srt).start_time) >= TimeRank(ses.start_time) THEN Append(srt, ses)
    ELSE Append(InsertByStartDesc(SubSeq(srt, 1, Len(srt) - 1), ses), Last(srt))

RECURSIVE SortByStartDesc(_)
SortByStartDesc(ss) ==
    IF ss = <<>> THEN <<>>
    ELSE InsertByStartDesc(SortByStartDesc(SubSeq(ss, 1, Len(ss) - 1)), Last(ss))

\* line 78
UserOf(log) == IF log.username = None THEN "unknown" ELSE log.username

\* line 88: additional_fields.get('workspace_name', resource_target or 'workspace')
WorkspaceName(log) ==
    IF log.workspace_name # None THEN log.workspace_name
    ELSE IF log.resource_target # "" THEN log.resource_target
    ELSE "workspace"

\* the key built from the name as it is rendered, cut to 24 characters
session_keyTruncated(user, workspace_name) ==
    user \o ":" \o Truncate(workspace_name, TerminalWidth)

\* lines 92 and 101: f"{user}:{workspace_name}"
session_key(user, workspace_name) == user \o ":" \o workspace_name

\* lines 93-98
Ongoing(log) ==
    [start_time |-> log.time, ip |-> log.ip,
     workspace |-> WorkspaceName(log), user |-> UserOf(log)]

\* the times of the closing event used for both ends
ClosedSessionStopTime(log, session) ==
    [username |-> UserOf(log),
     terminal |-> Truncate(WorkspaceName(log), TerminalWidth),
     ip |-> session.ip,
     start_time |-> log.time,
     end_time |-> log.time,
     duration |-> format_duration(log.time, log.time)]

\* lines 104-111
ClosedSession(log, session) ==
    [username |-> UserOf(log),
     terminal |-> Truncate(WorkspaceName(log), TerminalWidth),
     ip |-> session.ip,
     start_time |-> session.start_time,
     end_time |-> log.time,
     duration |-> format_duration(session.start_time, log.time)]

\* the duration of an ongoing session computed up to its own start
OpenSessionNumeric(session) ==
    [username |-> session.user,
     terminal |-> Truncate(session.workspace, TerminalWidth),
     ip |-> session.ip,
     start_time |-> session.start_time,
     end_time |-> None,
     duration |-> format_duration(session.start_time, session.start_time)]

\* lines 116-123
OpenSession(session) ==
    [username |-> session.user,
     terminal |-> Truncate(session.workspace, TerminalWidth),
     ip |-> session.ip,
     start_time |-> session.start_time,
     end_time |-> None,
     duration |-> "still logged in"]

\* lines 115-123: one open session per value of the dict, in its order
OpenSessions(d) == [i \in 1..Len(d) |-> OpenSession(d[i].value)]

\* the last `n` sessions instead of the first
TakeLast(ss, n) == SubSeq(ss, Len(ss) - Min(n, Len(ss)) + 1, Len(ss))

\* sessions[:limit], line 128
Take(ss, n) == SubSeq(ss, 1, Min(n, Len(ss)))

(***************************************************************************)
(* The audit logs get_audit_logs may return to get_user_sessions.          *)
(***************************************************************************)
\* values of `limit`
MaxLimit == 2
\* events in one batch
MaxLogs == 3

Early == Timeline[1].text
Late == Timeline[2].text

\* the user and workspace of an event: named, or with the defaults of lines 78, 88
Who ==
    {[username |-> "alice", workspace_name |-> "dev1", resource_target |-> "dev1"],
     [username |-> None, workspace_name |-> None, resource_target |-> "dev2"]}

Event(w, a, t, rt, ip) ==
    [username |-> w.username, workspace_name |-> w.workspace_name,
     resource_target |-> w.resource_target, action |-> a, time |-> t,
     resource_type |-> rt, ip |-> ip]

\* starts, stops and deletes of both workspaces at both times, a start from a
\* second address, an event of another resource type and one of another action
LastEvents ==
    {Event(w, a, t, "workspace_build", "10.0.0.1") :
        w \in Who, a \in {"start", "stop"}, t \in {Early, Late}}
    \cup {Event(w, "start", Late, "workspace_build", "10.0.0.2") : w \in Who}
    \cup {Event(w, "delete", Late, "workspace_build", "10.0.0.1") : w \in Who}
    \cup {Event(w, "start", Early, "template", "10.0.0.1") :
        w \in {v \in Who : v.username = "alice"}}
    \cup {Event(w, "create", Early, "workspace_build", "10.0.0.1") :
        w \in {v \in Who : v.username = "alice"}}

\* line 68: the server returns at most the limit asked for, limit * 2
Batches(lim) == UNION {[1..n -> LastEvents] : n \in 0..Min(2 * lim, MaxLogs)}

\* lines 61-75: fetch the logs and sort them
GetLogs ==
    /\ lpc = "call"
    /\ \E ls \in Batches(limit) :
        /\ logs' = ls
        /\ sorted_logs' = SortByTime(ls)
    /\ lpc' = "fold"
    /\ UNCHANGED <<limit, idx, user_sessions, sessions, result, exceptLast>>

Current == sorted_logs[idx + 1]
CurrentKey == session_key(UserOf(Current), WorkspaceName(Current))
Folding == lpc = "fold" /\ idx < Len(sorted_logs)

\* a start that also drops the closed sessions of its key
FoldStartResets ==
    /\ Folding
    /\ Current.resource_type = "workspace_build"
    /\ Current.action = "start"
    /\ user_sessions' = Put(user_sessions, CurrentKey, Ongoing(Current))
    /\ sessions' = SelectSeq(sessions,
                       LAMBDA s : ~(/\ s.username = UserOf(Current)
                                    /\ s.terminal = Truncate(WorkspaceName(Current),
                                                             TerminalWidth)))
    /\ idx' = idx + 1
    /\ UNCHANGED <<lpc, limit, logs, sorted_logs, result, exceptLast>>

\* lines 90-98: a workspace_build start opens (or overwrites) the session of its key
FoldStart ==
    /\ Folding
    /\ Current.resource_type = "workspace_build"
    /\ Current.action = "start"
    /\ user_sessions' = Put(user_sessions, CurrentKey, Ongoing(Current))
    /\ idx' = idx + 1
    /\ UNCHANGED <<lpc, limit, logs, sorted_logs, sessions, result, exceptLast>>

\* lines 99-112: a workspace_build stop or delete closes the open session of its key
FoldClose ==
    /\ Folding
    /\ Current.resource_type = "workspace_build"
    /\ Current.action \in {"stop", "delete"}
    /\ CurrentKey \in Keys(user_sessions)
    /\ sessions' = Append(sessions, ClosedSession(Current, Get(user_sessions, CurrentKey)))
    /\ user_sessions' = Del(user_sessions, CurrentKey)
    /\ idx' = idx + 1
    /\ UNCHANGED <<lpc, limit, logs, sorted_logs, result, exceptLast>>

\* the membership test of line 102 replaced by user_sessions.get(session_key, {}):
\* a close without a start is recorded with an empty start
FoldOrphanRecorded ==
    /\ Folding
    /\ Current.resource_type = "workspace_build"
    /\ Current.action \in {"stop", "delete"}
    /\ CurrentKey \notin Keys(user_sessions)
    /\ sessions' = Append(sessions, ClosedSession(Current, [ip |-> "", start_time |-> ""]))
    /\ idx' = idx + 1
    /\ UNCHANGED <<lpc, limit, logs, sorted_logs, user_sessions, result, exceptLast>>

\* lines 99-102: a stop or delete whose key has no open session
FoldOrphan ==
    /\ Folding
    /\ Current.resource_type = "workspace_build"
    /\ Current.action \in {"stop", "delete"}
    /\ CurrentKey \notin Keys(user_sessions)
    /\ idx' = idx + 1
    /\ UNCHANGED <<lpc, limit, logs, sorted_logs, user_sessions, sessions, result,
                   exceptLast>>

\* an event of another resource type handled by its action alone
FoldOtherOpens ==
    /\ Folding
    /\ \/ Current.resource_type # "workspace_build"
       \/ Current.action \notin {"start", "stop", "delete"}
    /\ user_sessions' = IF Current.action = "start"
                        THEN Put(user_sessions, CurrentKey, Ongoing(Current))
                        ELSE user_sessions
    /\ idx' = idx + 1
    /\ UNCHANGED <<lpc, limit, logs, sorted_logs, sessions, result, exceptLast>>

\* lines 87, 90, 99: any other event
FoldOther ==
    /\ Folding
    /\ \/ Current.resource_type # "workspace_build"
       \/ Current.action \notin {"start", "stop", "delete"}
    /\ idx' = idx + 1
    /\ UNCHANGED <<lpc, limit, logs, sorted_logs, user_sessions, sessions, result,
                   exceptLast>>

\* lines 114-128: add the ongoing sessions, sort, cut to limit, return
Finish ==
    /\ lpc = "fold"
    /\ idx = Len(sorted_logs)
    /\ sessions' = SortByStartDesc(sessions \o OpenSessions(user_sessions))
    /\ result' = Take(sessions', limit)
    /\ lpc' = "done"
    /\ UNCHANGED <<limit, logs, sorted_logs, idx, user_sessions, exceptLast>>

(***************************************************************************)
(* coder-last.py: get_audit_logs failing, print_sessions and main.         *)
(***************************************************************************)
\* lines 34-41: the request raises requests.RequestException (no connection, or
\* raise_for_status on a non-success answer): a message on stderr, [] returned;
\* get_user_sessions goes on with the empty list (lines 68-75)
GetLogsFailed ==
    /\ lpc = "call"
    /\ failed' = TRUE
    /\ stderr' = Append(stderr, "Error fetching audit logs")
    /\ logs' = <<>>
    /\ sorted_logs' = SortByTime(<<>>)
    /\ lpc' = "fold"
    /\ UNCHANGED <<limit, idx, user_sessions, sessions, result, fetchVars, displayed,
                   stdout, status, previous_run, ttlVars, eventVars>>

\* lines 130-136
format_time(time_str) ==
    IF Parses(time_str)
    THEN Timeline[CHOOSE i \in 1..Len(Timeline) : Timeline[i].text = time_str].display
    ELSE time_str

\* str.ljust
RECURSIVE ljust(_, _)
ljust(str, width) == IF Len(str) >= width THEN str ELSE ljust(str \o " ", width)

\* lines 145-160: one line of print_sessions
SessionLine(session, show_hostnames) ==
    LET username == ljust(Truncate(session.username, 8), 8)
        terminal == ljust(Truncate(session.terminal, TerminalWidth), TerminalWidth)
        hostname == IF show_hostnames /\ Truthy(session.ip)
                    THEN ljust(Truncate(session.ip, 16), 16)
                    ELSE ljust("", 16)
        start_time == format_time(session.start_time)
    IN IF Truthy(session.end_time)
       THEN username \o " " \o terminal \o " " \o hostname \o " " \o start_time
            \o " - " \o format_time(session.end_time) \o " " \o session.duration
       ELSE username \o " " \o terminal \o " " \o hostname \o " " \o start_time
            \o " " \o session.duration

\* line 229: min(s['start_time'] for s in sessions if s['start_time'])
EarliestStart(ss) ==
    LET with == {k \in 1..Len(ss) : Truthy(ss[k].start_time)}
    IN ss[CHOOSE k \in with :
            \A l \in with : TimeRank(ss[k].start_time) <= TimeRank(ss[l].start_time)]
         .start_time

\* lines 224-231: main prints what get_user_sessions returned and ends; min()
\* of no start time at all raises ValueError, which nothing catches
PrintSessions ==
    /\ lpc = "done"
    /\ status = ""
    /\ \E show_hostnames \in BOOLEAN :
        IF result = <<>>
        THEN /\ stdout' = Append(stdout, "No sessions found")
             /\ status' = "0"
             /\ UNCHANGED stderr
        ELSE LET lines == [k \in 1..Len(result) |-> SessionLine(result[k], show_hostnames)]
             IN IF \E k \in 1..Len(result) : Truthy(result[k].start_time)
                THEN /\ stdout' = stdout \o lines
                                  \o <<"", "audit logs begin "
                                           \o format_time(EarliestStart(result))>>
                     /\ status' = "0"
                     /\ UNCHANGED stderr
                ELSE /\ stdout' = stdout \o lines
                     /\ stderr' = Append(stderr, "ValueError")
                     /\ status' = "1"
    /\ UNCHANGED <<lastVars, fetchVars, displayed, failed, previous_run, ttlVars,
                   eventVars>>

\* starts and stops of alice's workspace at every time of Timeline, and an
\* event of another action
TimedEvents ==
    {Event(w, a, Timeline[i].text, "workspace_build", "10.0.0.1") :
        w \in {v \in Who : v.username = "alice"}, a \in {"start", "stop"},
        i \in 1..Len(Timeline)}
    \cup {e \in LastEvents : e.action = "create"}

\* lines 61-75 with a batch of TimedEvents
GetTimedLogs ==
    /\ lpc = "call"
    /\ \E ls \in UNION {[1..n -> TimedEvents] : n \in 0..Min(2 * limit, MaxLogs)} :
        /\ logs' = ls
        /\ sorted_logs' = SortByTime(ls)
    /\ lpc' = "fold"
    /\ UNCHANGED <<limit, idx, user_sessions, sessions, result, exceptLast>>

\* the workspace_build events of alice's workspace from one address
AliceEvents ==
    {e \in LastEvents :
        e.username = "alice" /\ e.resource_type = "workspace_build" /\ e.ip = "10.0.0.1"}

\* lines 61-75 with a batch of AliceEvents
GetAliceLogs ==
    /\ lpc = "call"
    /\ \E ls \in UNION {[1..n -> AliceEvents] : n \in 0..Min(2 * limit, MaxLogs)} :
        /\ logs' = ls
        /\ sorted_logs' = SortByTime(ls)
    /\ lpc' = "fold"
    /\ UNCHANGED <<limit, idx, user_sessions, sessions, result, exceptLast>>

\* users and workspaces whose names meet the limits of the session key: two
\* workspaces of alice that agree on their first 24 characters, and two pairs
\* of names that contain ':'
LongWho ==
    {[username |-> "alice", workspace_name |-> "project-backend-service-1",
      resource_target |-> "project-backend-service-1"],
     [username |-> "alice", workspace_name |-> "project-backend-service-2",
      resource_target |-> "project-backend-service-2"]}
ColonWho ==
    {[username |-> "a:b", workspace_name |-> "c", resource_target |-> "c"],
     [username |-> "a", workspace_name |-> "b:c", resource_target |-> "b:c"]}

\* a start and a stop of each of them, a later start from a second address,
\* and an event of another action
KeyEvents ==
    {Event(w, "start", Early, "workspace_build", "10.0.0.1") : w \in LongWho \cup ColonWho}
    \cup {Event(w, "stop", Late, "workspace_build", "10.0.0.1") : w \in LongWho \cup ColonWho}
    \cup {Event(w, "start", Late, "workspace_build", "10.0.0.2") : w \in LongWho \cup ColonWho}
    \cup {e \in LastEvents : e.action = "create"}

\* lines 61-75 with a batch of KeyEvents
GetKeyLogs ==
    /\ lpc = "call"
    /\ \E ls \in UNION {[1..n -> KeyEvents] : n \in 0..Min(2 * limit, MaxLogs)} :
        /\ logs' = ls
        /\ sorted_logs' = SortByTime(ls)
    /\ lpc' = "fold"
    /\ UNCHANGED <<limit, idx, user_sessions, sessions, result, exceptLast>>

\* what happens at one time: a start, a stop, a delete or another action of
\* alice's workspace, or a start or a stop of the other workspace
PairedChoices ==
    {<<w, a>> : w \in {v \in Who : v.username = "alice"},
                a \in {"start", "stop", "delete", "create"}}
    \cup {<<w, a>> : w \in {v \in Who : v.username = None}, a \in {"start", "stop"}}

\* one workspace_build event at each of the first n times of Timeline,
\* delivered oldest first or newest first
PairedBatches(lim) ==
    UNION {UNION {{[i \in 1..n |->
                      Event(f[i][1], f[i][2], Timeline[i].text, "workspace_build", "10.0.0.1")],
                   [i \in 1..n |->
                      Event(f[n + 1 - i][1], f[n + 1 - i][2], Timeline[n + 1 - i].text,
                            "workspace_build", "10.0.0.1")]}
                  : f \in [1..n -> PairedChoices]}
           : n \in 0..Min(2 * lim, Len(Timeline))}

\* lines 61-75 with a batch of PairedBatches
GetPairedLogs ==
    /\ lpc = "call"
    /\ \E ls \in PairedBatches(limit) :
        /\ logs' = ls
        /\ sorted_logs' = SortByTime(ls)
    /\ lpc' = "fold"
    /\ UNCHANGED <<limit, idx, user_sessions, sessions, result, exceptLast>>

\* get_user_sessions is called again with the same limit; the observer keeps
\* what the finished call was given and what it built
CallAgain ==
    /\ lpc = "done"
    /\ previous_run = <<>>
    /\ previous_run' = <<[logs |-> logs, sessions |-> sessions, result |-> result]>>
    /\ lpc' = "call"
    /\ logs' = <<>>
    /\ sorted_logs' = <<>>
    /\ idx' = 0
    /\ user_sessions' = <<>>
    /\ sessions' = <<>>
    /\ result' = <<>>
    /\ UNCHANGED <<limit, fetchVars, displayed, failed, stdout, stderr, status, ttlVars,
                   eventVars>>

\* the list without the elements at the positions in drop
RECURSIVE Without(_, _)
Without(ls, drop) ==
    IF ls = <<>> THEN <<>>
    ELSE IF Len(ls) \in drop
         THEN Without(SubSeq(ls, 1, Len(ls) - 1), drop)
         ELSE Append(Without(SubSeq(ls, 1, Len(ls) - 1), drop), Last(ls))

\* get_user_sessions is called again with the same limit and is given the
\* batch of the finished call without some of its events of other resource
\* types; the observer keeps what the finished call was given and what it built
CallFiltered ==
    /\ lpc = "done"
    /\ previous_run = <<>>
    /\ previous_run' = <<[logs |-> logs, sessions |-> sessions, result |-> result]>>
    /\ \E drop \in SUBSET {i \in 1..Len(logs) : logs[i].resource_type # "workspace_build"} :
        /\ logs' = Without(logs, drop)
        /\ sorted_logs' = SortByTime(logs')
    /\ lpc' = "fold"
    /\ idx' = 0
    /\ user_sessions' = <<>>
    /\ sessions' = <<>>
    /\ result' = <<>>
    /\ UNCHANGED <<limit, fetchVars, displayed, failed, stdout, stderr, status, ttlVars,
                   eventVars>>

(***************************************************************************)
(* get_and_bump_ttl_workspaces.py: extract_workspace_activity, lines       *)
(* 103-157, with get_workspace_details, lines 87-101, and the part of main *)
(* that reports, lines 190-214.                                            *)
(***************************************************************************)
\* events in the audit logs given to extract_workspace_activity
MaxTtlLogs == 2

\* the moment of the run, datetime.now(timezone.utc), in the seconds of Timeline
Now == Timeline[1].seconds

\* a time value that datetime.fromisoformat rejects
Malformed == "yesterday"

\* starts of two workspaces at two times, an event that is no start, and a
\* start whose time is malformed
TtlEvents ==
    {[resource_type |-> "workspace_build", action |-> "start", username |-> u.name,
      workspace_name |-> u.ws, workspace_id |-> u.id, time |-> t] :
        u \in {[name |-> "alice", ws |-> "dev1", id |-> "w1"],
               [name |-> None, ws |-> None, id |-> "w2"]},
        t \in {Early, Late}}
    \cup {[resource_type |-> "workspace_build", action |-> "stop", username |-> "alice",
           workspace_name |-> "dev1", workspace_id |-> "w1", time |-> Late]}
    \cup {[resource_type |-> "workspace_build", action |-> "start", username |-> "alice",
           workspace_name |-> "dev1", workspace_id |-> "w1", time |-> Malformed]}

\* what GET /api/v2/workspaces/{id} may do: answer 200 with the workspace,
\* answer with another status, or fail below HTTP (requests.get raises)
LookupOutcomes ==
    {[kind |-> "answer", status_code |-> 200, ttl_ms |-> "3600000", template_id |-> "t1",
      deadline |-> Late, status |-> "running"],
     [kind |-> "answer", status_code |-> 200, ttl_ms |-> "3600000", template_id |-> "t9",
      deadline |-> Early, status |-> "running"],
     [kind |-> "answer", status_code |-> 200, ttl_ms |-> None, template_id |-> None,
      deadline |-> None, status |-> "stopped"],
     [kind |-> "answer", status_code |-> 404, ttl_ms |-> None, template_id |-> None,
      deadline |-> None, status |-> None],
     [kind |-> "answer", status_code |-> 500, ttl_ms |-> None, template_id |-> None,
      deadline |-> None, status |-> None],
     [kind |-> "transport failure", status_code |-> 0, ttl_ms |-> None,
      template_id |-> None, deadline |-> None, status |-> None]}

\* line 188: template id -> name
template_map == [t1 |-> "base"]

\* lines 92-101: the details of an answer
get_workspace_details(r) ==
    IF r.status_code = 200
    THEN [ttl_ms |-> r.ttl_ms, template_id |-> r.template_id,
          deadline |-> r.deadline, status |-> r.status]
    ELSE [ttl_ms |-> None, template_id |-> None, deadline |-> None, status |-> None]

\* lines 54-74; None for no time remaining
format_time_remaining(remaining_seconds) ==
    IF remaining_seconds <= 0 THEN None
    ELSE LET days == remaining_seconds \div 86400
             hours == (remaining_seconds % 86400) \div 3600
             minutes == (remaining_seconds % 3600) \div 60
         IN IF days > 0
            THEN IF hours > 0 THEN ToString(days) \o "d" \o ToString(hours) \o "h"
                 ELSE ToString(days) \o "d"
            ELSE IF hours > 0
                 THEN IF minutes > 0 THEN ToString(hours) \o "h" \o ToString(minutes) \o "m"
                      ELSE ToString(hours) \o "h"
                 ELSE ToString(minutes) \o "m"

\* lines 130-143
UntilStop(details) ==
    IF details.status = "running" /\ Truthy(details.deadline)
    THEN IF Parses(details.deadline) /\ Seconds(details.deadline) > Now
         THEN format_time_remaining(Seconds(details.deadline) - Now)
         ELSE None
    ELSE None

\* lines 50-52: strftime('%Y-%m-%d %H:%M:%S') of a time of Timeline
TtlFormatTime(time_str) == SubSeq(time_str, 1, 10) \o " " \o SubSeq(time_str, 12, 19)

\* lines 125-154: the record kept for the workspace
Activity(log, details) ==
    [username |-> log.username,
     workspace_name |-> IF log.workspace_name = None THEN "N/A" ELSE log.workspace_name,
     workspace_id |-> log.workspace_id,
     start_time |-> TtlFormatTime(log.time),
     log_time |-> log.time,
     ttl_ms |-> details.ttl_ms,
     template_name |->
        IF Truthy(details.template_id)
        THEN IF details.template_id \in DOMAIN template_map
             THEN template_map[details.template_id]
             ELSE "Unknown"
        ELSE "N/A",
     until_stop |-> UntilStop(details)]

TtlCurrent == tlogs[tidx + 1]
TtlLooping == tpc = "loop" /\ tidx < Len(tlogs)
\* lines 111-112
TtlIsStart(log) == log.resource_type = "workspace_build" /\ log.action = "start"
\* the test of line 123 left out: the start handled last is kept
TtlIsLatestAlways(log) == TRUE

\* line 123
TtlIsLatest(log) ==
    IF log.workspace_id \notin Keys(workspace_latest) THEN TRUE
    ELSE TimeRank(log.time) > TimeRank(Get(workspace_latest, log.workspace_id).log_time)

\* lines 107-123: an event that is no start, or no later start of its workspace
TtlSkip ==
    /\ TtlLooping
    /\ IF ~TtlIsStart(TtlCurrent) THEN TRUE
       ELSE IF ~Parses(TtlCurrent.time) THEN FALSE
       ELSE ~TtlIsLatest(TtlCurrent)
    /\ tidx' = tidx + 1
    /\ UNCHANGED <<tpc, tlogs, workspace_latest, activities, lookups, fetchVars,
                   lastVars, mainVars, eventVars>>

\* lines 107-154: the latest start of its workspace, the lookup is answered
TtlStore ==
    /\ TtlLooping
    /\ TtlIsStart(TtlCurrent) /\ Parses(TtlCurrent.time) /\ TtlIsLatest(TtlCurrent)
    /\ \E r \in LookupOutcomes :
        /\ r.kind = "answer"
        /\ lookups' = Append(lookups, [workspace_id |-> TtlCurrent.workspace_id,
                                       outcome |-> r])
        /\ workspace_latest' = Put(workspace_latest, TtlCurrent.workspace_id,
                                   Activity(TtlCurrent, get_workspace_details(r)))
    /\ tidx' = tidx + 1
    /\ UNCHANGED <<tpc, tlogs, activities, fetchVars, lastVars, mainVars, eventVars>>

\* lines 91 and 124: requests.get raises, nothing below main catches it
TtlLookupRaises ==
    /\ TtlLooping
    /\ TtlIsStart(TtlCurrent) /\ Parses(TtlCurrent.time) /\ TtlIsLatest(TtlCurrent)
    /\ \E r \in LookupOutcomes :
        /\ r.kind # "answer"
        /\ lookups' = Append(lookups, [workspace_id |-> TtlCurrent.workspace_id,
                                       outcome |-> r])
    /\ tpc' = "raised"
    /\ UNCHANGED <<tlogs, tidx, workspace_latest, activities, fetchVars, lastVars,
                   mainVars, eventVars>>

\* lines 50-52 and 120: format_time of the time of a start event raises
\* ValueError, nothing below main catches it
TtlTimeRaises ==
    /\ TtlLooping
    /\ TtlIsStart(TtlCurrent)
    /\ ~Parses(TtlCurrent.time)
    /\ tpc' = "raised"
    /\ UNCHANGED <<tlogs, tidx, workspace_latest, activities, lookups, fetchVars,
                   lastVars, mainVars, eventVars>>

\* line 157
TtlReturn ==
    /\ tpc = "loop"
    /\ tidx = Len(tlogs)
    /\ activities' = [i \in 1..Len(workspace_latest) |-> workspace_latest[i].value]
    /\ tpc' = "done"
    /\ UNCHANGED <<tlogs, tidx, workspace_latest, lookups, fetchVars, lastVars,
                   mainVars, eventVars>>

\* lines 197-205: one line of the report
ActivityLine(activity) ==
    ljust(IF Truthy(activity.username) THEN activity.username ELSE "N/A", 15) \o " "
    \o ljust(activity.workspace_name, 25) \o " "
    \o ljust(activity.template_name, 20) \o " "
    \o ljust(activity.workspace_id, 40) \o " "
    \o ljust(activity.start_time, 25) \o " "
    \o ljust(IF activity.ttl_ms # None THEN activity.ttl_ms ELSE "N/A", 15) \o " "
    \o ljust(IF Truthy(activity.until_stop) THEN activity.until_stop ELSE "", 10)

\* lines 192-207: main prints the report and ends
TtlReport ==
    /\ tpc = "done"
    /\ status = ""
    /\ stdout' = stdout \o <<"Workspace Activity Report:">>
                  \o [i \in 1..Len(activities) |-> ActivityLine(activities[i])]
                  \o <<"Total workspace start events found: "
                          \o ToString(Len(activities))>>
    /\ status' = "0"
    /\ UNCHANGED <<ttlVars, fetchVars, lastVars, displayed, failed, stderr, previous_run,
                   eventVars>>

\* lines 212-214: main catches the exception, prints it and exits with 1
TtlAbort ==
    /\ tpc = "raised"
    /\ status = ""
    /\ stdout' = Append(stdout, "An error occurred")
    /\ status' = "1"
    /\ UNCHANGED <<ttlVars, fetchVars, lastVars, displayed, failed, stderr, previous_run,
                   eventVars>>

(***************************************************************************)
(* One event as the API delivers it, read by the aggregation loop          *)
(* (connect_count.py, lines 105-117) and by the session fold               *)
(* (coder-last.py, lines 78-88).  A key of the JSON object is absent, or   *)
(* present with null (None), or present with a value.                      *)
(***************************************************************************)
Absent == "<absent>"
NotRead == "<not read>"

\* the events: 'user' is absent, null or an object whose 'username' is absent,
\* null or a name; 'additional_fields' is absent, null or an object whose
\* 'workspace_name' is absent or a name
RawEvents ==
    {e \in [user : {Absent, None, "object"},
            username : {Absent, None, "alice"},
            action : {Absent, "login", "start", "stop"},
            time : {Absent, Early},
            resource_type : {Absent, "workspace_build"},
            ip : {Absent, "10.0.0.1"},
            resource_target : {Absent, "dev1"},
            additional_fields : {Absent, None, "object"},
            workspace_name : {Absent, "dev1"}] :
        /\ e.user # "object" => e.username = Absent
        /\ e.additional_fields # "object" => e.workspace_name = Absent}

\* dict.get(key, default) on a key with the value v
DictGet(v, default) == IF v = Absent THEN default ELSE v

\* log.get('user', {}).get('username', 'unknown') raises AttributeError when
\* 'user' is null: None has no get
UsernameRaises(e) == e.user = None
Username(e) == IF e.user = Absent THEN "unknown" ELSE DictGet(e.username, "unknown")

\* connect_count.py, lines 105-113
ReadForCount ==
    /\ input # <<>>
    /\ output = <<>>
    /\ LET action == DictGet(input.action, None)
       IN output' =
            [by |-> "aggregate",
             raised |-> IF action = "login" /\ UsernameRaises(input)
                        THEN "AttributeError" ELSE "",
             action |-> action,
             user |-> IF action = "login" /\ ~UsernameRaises(input)
                      THEN Username(input) ELSE NotRead,
             time_str |-> NotRead, resource_type |-> NotRead, ip |-> NotRead,
             resource_target |-> NotRead, workspace_name |-> NotRead]
    /\ UNCHANGED <<input, fetchVars, lastVars, mainVars, ttlVars>>

\* coder-last.py, lines 78-88
ReadForFold ==
    /\ input # <<>>
    /\ output = <<>>
    /\ LET resource_type == DictGet(input.resource_type, "")
           resource_target == DictGet(input.resource_target, "")
           names == resource_type = "workspace_build"
       IN output' =
            IF UsernameRaises(input)
            THEN [by |-> "fold", raised |-> "AttributeError", action |-> NotRead,
                  user |-> NotRead, time_str |-> NotRead, resource_type |-> NotRead,
                  ip |-> NotRead, resource_target |-> NotRead,
                  workspace_name |-> NotRead]
            ELSE [by |-> "fold",
                  raised |-> IF names /\ input.additional_fields = None
                             THEN "AttributeError" ELSE "",
                  action |-> DictGet(input.action, ""),
                  user |-> Username(input),
                  time_str |-> DictGet(input.time, ""),
                  resource_type |-> resource_type,
                  ip |-> DictGet(input.ip, ""),
                  resource_target |-> resource_target,
                  workspace_name |->
                    IF names /\ input.additional_fields # None
                    THEN DictGet(input.workspace_name,
                                 IF resource_target # "" THEN resource_target
                                 ELSE "workspace")
                    ELSE NotRead]
    /\ UNCHANGED <<input, fetchVars, lastVars, mainVars, ttlVars>>

(***************************************************************************)
(* connect_count.py: main, lines 161-171.                                  *)
(***************************************************************************)
\* line 131: the tuple handed to the caller
Returned == Counters

\* lines 169-171: whatever get_connection_data returned is displayed, and main
\* returns (exit status 0)
DisplayTables ==
    /\ pc = "done"
    /\ displayed = <<>>
    /\ displayed' = <<Returned>>
    /\ status' = "0"
    /\ UNCHANGED <<fetchVars, failed, stdout, stderr, previous_run, lastVars, ttlVars,
                   eventVars>>

\* the script is run again; the observer keeps what the finished run returned
\* and how its loop ended
MainAgain ==
    /\ pc = "done"
    /\ displayed # <<>>
    /\ previous_run = <<>>
    /\ previous_run' = <<[returned |-> Returned, exit |-> exit]>>
    /\ pc' = "loop"
    /\ after_id' = None
    /\ previous_after_id' = None
    /\ action_counts' = ZeroCounters.action_counts
    /\ login_counts' = ZeroCounters.login_counts
    /\ connection_count' = ZeroCounters.connection_count
    /\ pages' = <<>>
    /\ requests' = 0
    /\ exit' = ""
    /\ displayed' = <<>>
    /\ status' = ""
    /\ UNCHANGED <<server, store, failed, stdout, stderr, lastVars, ttlVars, eventVars>>

(***************************************************************************)
(* Initial states.                                                         *)
(***************************************************************************)
\* no output yet, no earlier run
MainIdle ==
    /\ displayed = <<>>
    /\ failed = FALSE
    /\ stdout = <<>>
    /\ stderr = <<>>
    /\ status = ""
    /\ previous_run = <<>>

\* no run of extract_workspace_activity
TtlIdle ==
    /\ tpc = "idle"
    /\ tlogs = <<>>
    /\ tidx = 0
    /\ workspace_latest = <<>>
    /\ activities = <<>>
    /\ lookups = <<>>

\* no event under the reader
EventIdle == input = <<>> /\ output = <<>>

LastIdle ==
    /\ lpc = "idle"
    /\ limit = 0
    /\ logs = <<>>
    /\ sorted_logs = <<>>
    /\ idx = 0
    /\ user_sessions = <<>>
    /\ sessions = <<>>
    /\ result = <<>>

\* lines 43-63
FetchStart ==
    /\ pc = "loop"
    /\ after_id = None
    /\ previous_after_id = None
    /\ action_counts = ZeroCounters.action_counts
    /\ login_counts = ZeroCounters.login_counts
    /\ connection_count = ZeroCounters.connection_count
    /\ pages = <<>>
    /\ requests = 0
    /\ exit = ""

\* no run of get_connection_data
FetchIdle ==
    /\ pc = "idle"
    /\ after_id = None
    /\ previous_after_id = None
    /\ action_counts = ZeroCounters.action_counts
    /\ login_counts = ZeroCounters.login_counts
    /\ connection_count = ZeroCounters.connection_count
    /\ server = "any"
    /\ store = <<>>
    /\ pages = <<>>
    /\ requests = 0
    /\ exit = ""

\* get_user_sessions is called with some limit (lines 58-72)
LastInit ==
    /\ lpc = "call"
    /\ limit \in 1..MaxLimit
    /\ logs = <<>>
    /\ sorted_logs = <<>>
    /\ idx = 0
    /\ user_sessions = <<>>
    /\ sessions = <<>>
    /\ result = <<>>
    /\ FetchIdle
    /\ MainIdle /\ TtlIdle /\ EventIdle

LastNext ==
    \/ GetLogs
    \/ FoldStart
    \/ FoldClose
    \/ FoldOrphan
    \/ FoldOther
    \/ Finish

\* a server that answers anything
Init ==
    /\ FetchStart /\ server = "any" /\ store = <<>>
    /\ LastIdle /\ MainIdle /\ TtlIdle /\ EventIdle

\* a server that pages through its store
PagedInit ==
    /\ FetchStart /\ server = "paged" /\ store \in Stores
    /\ LastIdle /\ MainIdle /\ TtlIdle /\ EventIdle

Next ==
    \/ CycleBreak
    \/ FetchError(TRUE)
    \/ EmptyPage(TRUE)
    \/ ShortPage(TRUE)
    \/ FullPage(TRUE)

PagedNext ==
    \/ CycleBreak
    \/ EmptyPage(TRUE)
    \/ ShortPage(TRUE)
    \/ FullPage(TRUE)

\* the loop without a bound on the requests; the server always answers
FairNext ==
    \/ CycleBreak
    \/ FetchError(FALSE)
    \/ EmptyPage(FALSE)
    \/ ShortPage(FALSE)
    \/ FullPage(FALSE)

Spec == Init /\ [][Next]_vars

PagedSpec == PagedInit /\ [][PagedNext]_vars

LastSpec == LastInit /\ [][LastNext]_vars

\* the loop is sequential code: while it has not returned it takes its next step
FairSpec == Init /\ [][FairNext]_vars /\ WF_vars(FairNext)

\* extract_workspace_activity is called with some audit logs
TtlInit ==
    /\ tpc = "loop"
    /\ tlogs \in UNION {[1..n -> TtlEvents] : n \in 0..MaxTtlLogs}
    /\ tidx = 0
    /\ workspace_latest = <<>>
    /\ activities = <<>>
    /\ lookups = <<>>
    /\ FetchIdle /\ LastIdle /\ MainIdle /\ EventIdle

TtlNext ==
    \/ TtlSkip
    \/ TtlStore
    \/ TtlLookupRaises
    \/ TtlTimeRaises
    \/ TtlReturn
    \/ TtlReport
    \/ TtlAbort

TtlSpec == TtlInit /\ [][TtlNext]_vars

\* some event is read
EventInit ==
    /\ input \in RawEvents
    /\ output = <<>>
    /\ FetchIdle /\ LastIdle /\ MainIdle /\ TtlIdle

EventNext ==
    \/ ReadForCount
    \/ ReadForFold

EventSpec == EventInit /\ [][EventNext]_vars

\* connect_count.py as a whole: the loop, then the display
MainNext ==
    \/ CycleBreak
    \/ FetchError(TRUE)
    \/ EmptyPage(TRUE)
    \/ ShortPage(TRUE)
    \/ FullPage(TRUE)
    \/ DisplayTables

MainSpec == Init /\ [][MainNext]_vars

\* two runs of connect_count.py, one after the other
TwoRunNext ==
    \/ CycleBreak
    \/ FetchError(TRUE)
    \/ EmptyPage(TRUE)
    \/ ShortPage(TRUE)
    \/ FullPage(TRUE)
    \/ DisplayTables
    \/ MainAgain

TwoRunSpec == Init /\ [][TwoRunNext]_vars

\* coder-last.py as a whole: the fetch may fail, the sessions are printed
LastMainNext ==
    \/ GetLogs
    \/ GetLogsFailed
    \/ FoldStart
    \/ FoldClose
    \/ FoldOrphan
    \/ FoldOther
    \/ Finish
    \/ PrintSessions

LastMainSpec == LastInit /\ [][LastMainNext]_vars

\* get_user_sessions over batches that span every time of Timeline
TimedNext ==
    \/ GetTimedLogs
    \/ FoldStart
    \/ FoldClose
    \/ FoldOrphan
    \/ FoldOther
    \/ Finish

TimedSpec == LastInit /\ [][TimedNext]_vars

\* two calls of get_user_sessions, one after the other
TwoCallNext ==
    \/ GetAliceLogs
    \/ FoldStart
    \/ FoldClose
    \/ FoldOrphan
    \/ FoldOther
    \/ Finish
    \/ CallAgain

TwoCallSpec == LastInit /\ [][TwoCallNext]_vars

\* get_user_sessions over batches of long names and of names with ':'
KeyNext ==
    \/ GetKeyLogs
    \/ FoldStart
    \/ FoldClose
    \/ FoldOrphan
    \/ FoldOther
    \/ Finish

KeySpec == LastInit /\ [][KeyNext]_vars

\* two calls of get_user_sessions on batches that differ in their events of
\* other resource types
FrameNext ==
    \/ GetLogs
    \/ FoldStart
    \/ FoldClose
    \/ FoldOrphan
    \/ FoldOther
    \/ Finish
    \/ CallFiltered

FrameSpec == LastInit /\ [][FrameNext]_vars

\* get_user_sessions over batches with one event at each time
PairedNext ==
    \/ GetPairedLogs
    \/ FoldStart
    \/ FoldClose
    \/ FoldOrphan
    \/ FoldOther
    \/ Finish

PairedSpec == LastInit /\ [][PairedNext]_vars

(***************************************************************************)
(* What the observer can say about a run of get_connection_data.           *)
(***************************************************************************)
\* the events processed so far, in the order the server delivered them
Delivered == Flatten(pages)

\* how often each action occurs in evs, counted by position
Tally(evs) ==
    [a \in {evs[i].action : i \in 1..Len(evs)} |->
        Cardinality({i \in 1..Len(evs) : evs[i].action = a})]

\* how many login events each user has in evs, counted by position
NameOrUnknown(e) == IF e.username = None THEN "unknown" ELSE e.username
LoginTally(evs) ==
    LET at == {i \in 1..Len(evs) : evs[i].action = "login"}
    IN [u \in {NameOrUnknown(evs[i]) : i \in at} |->
            Cardinality({i \in at : NameOrUnknown(evs[i]) = u})]

RECURSIVE SumOf(_, _)
SumOf(f, S) ==
    IF S = {} THEN 0
    ELSE LET k == CHOOSE k \in S : TRUE IN f[k] + SumOf(f, S \ {k})
Total(f) == SumOf(f, DOMAIN f)

AllButLast(s) == SubSeq(s, 1, Len(s) - 1)

\* the last two pages processed were full and end with the same id X
RepeatedCursor ==
    /\ Len(pages) >= 2
    /\ Len(pages[Len(pages)]) = PageLimit
    /\ Len(pages[Len(pages) - 1]) = PageLimit
    /\ Last(pages[Len(pages)]).id = Last(pages[Len(pages) - 1]).id
    /\ Last(pages[Len(pages)]).id # None

(***************************************************************************)
(* C1, as stated: when two consecutive full pages end with the same id X,  *)
(* the loop stops and the returned counts cover only the pages fetched     *)
(* before the page that repeated X.                                        *)
(***************************************************************************)
C1_RepeatingPageNotCounted ==
    exit = "cycle" =>
        /\ action_counts = Tally(Flatten(AllButLast(pages)))
        /\ login_counts = LoginTally(Flatten(AllButLast(pages)))

(***************************************************************************)
(* C1, amended: when two consecutive requests are answered with full pages *)
(* that end with the same id X, the next step of the loop is the cycle     *)
(* break, which issues no further request and changes no count; the loop   *)
(* leaves through the cycle break only in that situation, and the returned *)
(* counts cover every page fetched, the page that repeated X included.     *)
(***************************************************************************)
C1_CycleStopsAfterCounting ==
    /\ [][(pc = "loop" /\ RepeatedCursor) =>
            /\ pc' = "done"
            /\ exit' = "cycle"
            /\ requests' = requests
            /\ pages' = pages
            /\ Counters' = Counters]_vars
    /\ [](exit = "cycle" =>
            /\ RepeatedCursor
            /\ requests = Len(pages)
            /\ action_counts = Tally(Delivered)
            /\ login_counts = LoginTally(Delivered))

\* a run of two full pages ending with the same id, stopped by the cycle break
C1_Witness ==
    /\ pc = "done"
    /\ exit = "cycle"
    /\ Len(pages) = 2
    /\ Total(action_counts) = 2 * PageLimit

(***************************************************************************)
(* C2: the pagination loop never loops forever: whatever the server        *)
(* answers, the loop eventually exits.                                     *)
(***************************************************************************)
C2_LoopTerminates == <>(pc = "done")

(***************************************************************************)
(* C3: against a server that pages through a finite store of events with   *)
(* pairwise distinct ids, a finished run has processed every event of the  *)
(* store exactly once, in delivery order, and did not leave through the    *)
(* cycle break.                                                            *)
(***************************************************************************)
C3_FetchComplete ==
    pc = "done" => (Delivered = store /\ exit # "cycle")

\* the same for the stores in which every id is true in Python
C3_FetchCompleteTruthyIds ==
    (pc = "done" /\ \A i \in 1..Len(store) : Truthy(store[i].id))
        => (Delivered = store /\ exit # "cycle")

(***************************************************************************)
(* C9: the aggregation is order-independent: folding any permutation of    *)
(* the delivered batch, as one batch, gives the counts the run has         *)
(* accumulated page by page.                                               *)
(***************************************************************************)
C9_OrderIndependent ==
    \A p \in Permutations(1..Len(Delivered)) :
        LET permuted == [i \in 1..Len(Delivered) |-> Delivered[p[i]]]
            c == ProcessLogs(permuted, ZeroCounters)
        IN /\ c.action_counts = action_counts
           /\ c.login_counts = login_counts

\* a finished run over several pages in which logins of two users and another
\* action were delivered
C9_Witness ==
    /\ pc = "done"
    /\ Len(pages) >= 2
    /\ Cardinality(DOMAIN login_counts) >= 2
    /\ Cardinality(DOMAIN action_counts) >= 2

(***************************************************************************)
(* C10: the aggregation counts with multiplicity: action_counts[a] is the  *)
(* number of delivered events with action a, login_counts[u] the number of *)
(* delivered login events of user u, an event delivered twice being        *)
(* counted twice; the action counts sum to the number of delivered events  *)
(* and the login counts to action_counts['login'].                         *)
(***************************************************************************)
C10_CountsWithMultiplicity ==
    /\ action_counts = Tally(Delivered)
    /\ login_counts = LoginTally(Delivered)
    /\ Total(action_counts) = Len(Delivered)
    /\ Total(login_counts) =
          IF "login" \in DOMAIN action_counts THEN action_counts["login"] ELSE 0

\* the same event (same id) was delivered on two pages and is counted twice
C10_Witness ==
    /\ pc = "done"
    /\ Len(pages) = 2
    /\ pages[1] = pages[2]
    /\ Len(pages[1]) = PageLimit
    /\ pages[1][1] = pages[1][2]
    /\ pages[1][1].action = "login"
    /\ action_counts["login"] = 2 * PageLimit
    /\ login_counts[NameOrUnknown(pages[1][1])] = 2 * PageLimit

(***************************************************************************)
(* What the observer can say about a run of get_user_sessions.  Positions  *)
(* are positions of sorted_logs; the SessionKey of an event is its user    *)
(* and its entity name, which get_user_sessions joins into session_key.    *)
(***************************************************************************)
KeyAt(i) == session_key(UserOf(sorted_logs[i]), WorkspaceName(sorted_logs[i]))
IsStart(i) ==
    sorted_logs[i].resource_type = "workspace_build" /\ sorted_logs[i].action = "start"
IsClose(i) ==
    /\ sorted_logs[i].resource_type = "workspace_build"
    /\ sorted_logs[i].action \in {"stop", "delete"}

\* the next start, stop or delete of the key of event i among the first n
\* events, 0 if there is none
NextOfKey(i, n) ==
    LET later == {j \in (i + 1)..n : (IsStart(j) \/ IsClose(j)) /\ KeyAt(j) = KeyAt(i)}
    IN IF later = {} THEN 0 ELSE CHOOSE j \in later : \A k \in later : j <= k

\* a start and the stop or delete that follows it for its key
ClosedPairs(n) ==
    {p \in (1..n) \X (1..n) :
        IsStart(p[1]) /\ NextOfKey(p[1], n) = p[2] /\ IsClose(p[2])}
\* a start that no start, stop or delete of its key follows
OpenStarts(n) == {i \in 1..n : IsStart(i) /\ NextOfKey(i, n) = 0}
\* a start whose key is started again before it is closed
OverwrittenStarts(n) ==
    {i \in 1..n : IsStart(i) /\ NextOfKey(i, n) # 0 /\ IsStart(NextOfKey(i, n))}
Starts(n) == {i \in 1..n : IsStart(i)}
\* a start that no stop or delete of its key follows
UnclosedStarts(n) ==
    {i \in 1..n : IsStart(i) /\ ~\E j \in (i + 1)..n : IsClose(j) /\ KeyAt(j) = KeyAt(i)}

\* positions of ss that hold a session of the key of event i
OfKey(ss, i) ==
    {k \in 1..Len(ss) :
        /\ ss[k].username = UserOf(sorted_logs[i])
        /\ ss[k].terminal = Truncate(WorkspaceName(sorted_logs[i]), TerminalWidth)}
IsOpen(ses) == ses.end_time = None
OpenIn(ss) == {k \in 1..Len(ss) : IsOpen(ss[k])}
ClosedIn(ss) == {k \in 1..Len(ss) : ~IsOpen(ss[k])}

(***************************************************************************)
(* C4: for events folded in ascending time order, a workspace_build start  *)
(* and the stop that follows it for the same SessionKey produce exactly    *)
(* one closed session, with the start's time as start_time and the stop's  *)
(* time as end_time (pairs that agree in key and times are counted one     *)
(* session each).                                                          *)
(***************************************************************************)
C4_StartStopPair ==
    \A p \in ClosedPairs(idx) :
        LET twins == {q \in ClosedPairs(idx) :
                        /\ KeyAt(q[1]) = KeyAt(p[1])
                        /\ sorted_logs[q[1]].time = sorted_logs[p[1]].time
                        /\ sorted_logs[q[2]].time = sorted_logs[p[2]].time}
            found == {k \in OfKey(sessions, p[1]) :
                        /\ sessions[k].start_time = sorted_logs[p[1]].time
                        /\ sessions[k].end_time = sorted_logs[p[2]].time}
        IN Cardinality(found) = Cardinality(twins)

\* a finished run with a start and a later stop of its key, at different times
C4_Witness ==
    /\ lpc = "done"
    /\ \E p \in ClosedPairs(idx) :
        /\ sorted_logs[p[2]].action = "stop"
        /\ TimeRank(sorted_logs[p[1]].time) < TimeRank(sorted_logs[p[2]].time)
        /\ \E k \in 1..Len(result) :
            /\ result[k].start_time = sorted_logs[p[1]].time
            /\ result[k].end_time = sorted_logs[p[2]].time

(***************************************************************************)
(* C5, as stated: a workspace_build start with no following stop or delete *)
(* of its SessionKey produces exactly one open session (end_time None) in  *)
(* the returned result.                                                    *)
(***************************************************************************)
C5_OpenSessionReturned ==
    lpc = "done" =>
        \A i \in UnclosedStarts(idx) :
            Cardinality({k \in OfKey(result, i) : IsOpen(result[k])}) = 1

(***************************************************************************)
(* C5, amended: a workspace_build start with no following stop or delete   *)
(* of its SessionKey produces exactly one open session (end_time None) in  *)
(* the session list the fold builds, with the time and ip of the last      *)
(* start of the key; the list holds one open session for every key left    *)
(* in the open-session map and no other.  The returned result is the first *)
(* `limit` entries of that list, so it holds all of them when the list has *)
(* at most `limit` sessions.                                               *)
(***************************************************************************)
C5_OpenSessionListed ==
    lpc = "done" =>
        /\ \A i \in UnclosedStarts(idx) :
            Cardinality({k \in OfKey(sessions, i) : IsOpen(sessions[k])}) = 1
        /\ \A i \in OpenStarts(idx) :
            \E k \in OfKey(sessions, i) :
                /\ IsOpen(sessions[k])
                /\ sessions[k].start_time = sorted_logs[i].time
                /\ sessions[k].ip = sorted_logs[i].ip
        /\ Cardinality(OpenIn(sessions)) = Cardinality(OpenStarts(idx))
        /\ Cardinality(OpenIn(sessions)) = Len(user_sessions)
        /\ Len(result) = Min(limit, Len(sessions))
        /\ \A k \in 1..Len(result) : result[k] = sessions[k]

\* more sessions than `limit`: an open session is returned and another is cut
C5_Witness ==
    /\ lpc = "done"
    /\ Len(sessions) > limit
    /\ \E k \in 1..Len(result) : IsOpen(result[k])
    /\ \E k \in (Len(result) + 1)..Len(sessions) : IsOpen(sessions[k])

(***************************************************************************)
(* C6: last start wins: a workspace_build start whose SessionKey already   *)
(* has an open session replaces it, the open session of the key then       *)
(* carries the time and ip of the more recent start, and the earlier start *)
(* yields no session, open or closed: the sessions, open and closed, are   *)
(* as many as the starts that were not overwritten.                        *)
(***************************************************************************)
C6_LastStartWins ==
    /\ [][(Folding /\ IsStart(idx + 1) /\ CurrentKey \in Keys(user_sessions)) =>
            /\ Keys(user_sessions') = Keys(user_sessions)
            /\ Len(user_sessions') = Len(user_sessions)
            /\ Get(user_sessions', CurrentKey).start_time = Current.time
            /\ Get(user_sessions', CurrentKey).ip = Current.ip
            /\ sessions' = sessions]_vars
    /\ [](Cardinality(Starts(idx)) - Cardinality(OverwrittenStarts(idx)) =
            IF lpc = "done" THEN Len(sessions)
            ELSE Len(sessions) + Len(user_sessions))

\* two starts of one key at different times and from different addresses, the
\* later one reported as the open session
C6_Witness ==
    /\ lpc = "done"
    /\ \E i \in OverwrittenStarts(idx) :
        LET j == NextOfKey(i, idx)
        IN /\ sorted_logs[i].time # sorted_logs[j].time
           /\ sorted_logs[i].ip # sorted_logs[j].ip
           /\ j \in OpenStarts(idx)
           /\ \E k \in OfKey(result, j) :
                /\ IsOpen(result[k])
                /\ result[k].start_time = sorted_logs[j].time
                /\ result[k].ip = sorted_logs[j].ip

(***************************************************************************)
(* C7: a stop or delete whose SessionKey has no open session at that point *)
(* of the fold is a no-op: the open-session map and the session list stay  *)
(* as they are and the fold goes on to the next event; no closed session   *)
(* exists without the start it closes.                                     *)
(***************************************************************************)
C7_OrphanCloseIsNoOp ==
    /\ [][(Folding /\ IsClose(idx + 1) /\ CurrentKey \notin Keys(user_sessions)) =>
            /\ user_sessions' = user_sessions
            /\ sessions' = sessions
            /\ lpc' = "fold"
            /\ idx' = idx + 1]_vars
    /\ [](Cardinality(ClosedIn(sessions)) = Cardinality(ClosedPairs(idx)))

\* a finished run in which a stop or delete came before any start of its key,
\* and the same key was started and closed later
C7_Witness ==
    /\ lpc = "done"
    /\ \E i \in 1..idx :
        /\ IsClose(i)
        /\ \A j \in 1..(i - 1) : ~(IsStart(j) /\ KeyAt(j) = KeyAt(i))
        /\ \E p \in ClosedPairs(idx) : KeyAt(p[1]) = KeyAt(i) /\ p[1] > i

(***************************************************************************)
(* C8: at every point of the fold at most one open session exists per      *)
(* SessionKey (user, entity name), and the returned result holds at most   *)
(* one open session for each key of the open-session map.                  *)
(***************************************************************************)
C8_OneOpenSessionPerKey ==
    /\ \A i, j \in 1..Len(user_sessions) :
        i # j =>
            <<user_sessions[i].value.user, user_sessions[i].value.workspace>>
                # <<user_sessions[j].value.user, user_sessions[j].value.workspace>>
    /\ \A i \in 1..Len(user_sessions) :
        user_sessions[i].key =
            session_key(user_sessions[i].value.user, user_sessions[i].value.workspace)
    /\ lpc = "done" =>
        /\ Cardinality(OpenIn(sessions)) = Len(user_sessions)
        /\ \A k \in OpenIn(sessions) :
            \E i \in 1..Len(user_sessions) : sessions[k] = OpenSession(user_sessions[i].value)
        /\ \A k, l \in OpenIn(result) :
            k # l => <<result[k].username, result[k].terminal>>
                        # <<result[l].username, result[l].terminal>>

\* in the fold, two keys open at once, one of them started twice
C8_Witness ==
    /\ lpc = "fold"
    /\ idx = 3
    /\ Len(user_sessions) = 2
    /\ OverwrittenStarts(idx) # {}

(***************************************************************************)
(* C11: a non-success response ends the run of get_connection_data: no     *)
(* further request is issued, and the counts accumulated from the pages    *)
(* fetched before the failure are discarded, not reported by the caller as *)
(* the result of the run.                                                  *)
(***************************************************************************)
C11_ErrorDiscardsCounts ==
    exit = "error" =>
        /\ pc = "done"
        /\ requests = Len(pages) + 1
        /\ pages # <<>> => displayed = <<>>

\* the part that holds: the failed request is the last one, the counts are
\* those of the pages before it, and they are displayed with exit status 0
C11_ErrorReportsPartialCounts ==
    (exit = "error" /\ displayed # <<>>) =>
        /\ requests = Len(pages) + 1
        /\ displayed[1].action_counts = Tally(Delivered)
        /\ displayed[1].login_counts = LoginTally(Delivered)
        /\ status = "0"

(***************************************************************************)
(* C13: the result handed to the caller of get_connection_data lets the    *)
(* caller tell a run that covered the complete range from a run truncated  *)
(* by the cycle guard: two runs that return the same result ended the same *)
(* way, both through the cycle break or neither.                           *)
(***************************************************************************)
C13_CycleDistinguishable ==
    (pc = "done" /\ previous_run # <<>> /\ previous_run[1].returned = Returned) =>
        ((previous_run[1].exit = "cycle") <=> (exit = "cycle"))

(***************************************************************************)
(* C12: in coder-last a failed audit-log fetch aborts the run with a       *)
(* nonzero exit status and a descriptive message; the run never ends as a  *)
(* normal run that reports an empty session list.                          *)
(***************************************************************************)
C12_FetchFailureAborts ==
    (failed /\ status # "") =>
        /\ status # "0"
        /\ stderr # <<>>
        /\ \A k \in 1..Len(stdout) : stdout[k] # "No sessions found"

(***************************************************************************)
(* C15: the list get_user_sessions returns holds closed and open sessions  *)
(* together, ordered by non-increasing start_time; it is the head of the   *)
(* session list, which is ordered the same way.                            *)
(***************************************************************************)
C15_MostRecentFirst ==
    lpc = "done" =>
        /\ \A k, l \in 1..Len(sessions) :
            k < l => TimeRank(sessions[k].start_time) >= TimeRank(sessions[l].start_time)
        /\ \A k, l \in 1..Len(result) :
            k < l => TimeRank(result[k].start_time) >= TimeRank(result[l].start_time)
        /\ result = Take(sessions, limit)

\* an open session that started later is returned before a closed session,
\* which the fold had listed first
C15_Witness ==
    /\ lpc = "done"
    /\ Len(result) = 2
    /\ IsOpen(result[1])
    /\ ~IsOpen(result[2])
    /\ TimeRank(result[1].start_time) > TimeRank(result[2].start_time)

(***************************************************************************)
(* C16: a closed session whose end is d whole seconds after its start has  *)
(* the duration (HH:MM) with HH = d div 3600 and MM = (d mod 3600) div 60, *)
(* the seconds dropped; for every closed session the fold produces, d >= 0, *)
(* HH >= 0 and 0 <= MM <= 59; 09:00:00 to 11:30:00 of one day is (02:30).  *)
(***************************************************************************)
C16_DurationHoursMinutes ==
    \A k \in ClosedIn(sessions) :
        LET d == Seconds(sessions[k].end_time) - Seconds(sessions[k].start_time)
        IN /\ d >= 0
           /\ \E HH \in 0..(d \div 3600), MM \in 0..59 :
                /\ HH * 3600 + MM * 60 <= d
                /\ d < HH * 3600 + MM * 60 + 60
                /\ sessions[k].duration = "(" \o TwoDigits(HH) \o ":" \o TwoDigits(MM) \o ")"
           /\ (sessions[k].start_time = "2024-01-01T09:00:00Z"
                    /\ sessions[k].end_time = "2024-01-01T11:30:00Z")
                => sessions[k].duration = "(02:30)"
           /\ (sessions[k].start_time = "2024-01-01T09:00:00Z"
                    /\ sessions[k].end_time = "2024-01-01T11:30:45Z")
                => sessions[k].duration = "(02:30)"
           /\ (sessions[k].start_time = "2024-01-01T11:30:45Z"
                    /\ sessions[k].end_time = "2024-01-02T10:29:59Z")
                => sessions[k].duration = "(22:59)"
           /\ (sessions[k].start_time = "2024-01-01T09:00:00Z"
                    /\ sessions[k].end_time = "2024-01-06T09:00:00Z")
                => sessions[k].duration = "(120:00)"

\* returned: the session from 09:00:00 to 11:30:00 with the duration (02:30)
C16_Witness ==
    /\ lpc = "done"
    /\ \E k \in 1..Len(result) :
        /\ result[k].start_time = "2024-01-01T09:00:00Z"
        /\ result[k].end_time = "2024-01-01T11:30:00Z"
        /\ result[k].duration = "(02:30)"

(***************************************************************************)
(* C17, as stated: the duration of an open session is the literal          *)
(* "still open".                                                           *)
(***************************************************************************)
C17_StillOpen ==
    lpc = "done" =>
        \A k \in OpenIn(sessions) : sessions[k].duration = "still open"

(***************************************************************************)
(* C17, amended: the duration of an open session is the literal            *)
(* "still logged in" and never a number, which is also what                *)
(* format_duration gives for a start without an end; a batch with alice's  *)
(* start on dev1 and no stop yields one open session with that duration.   *)
(***************************************************************************)
C17_StillLoggedIn ==
    lpc = "done" =>
        /\ \A k \in OpenIn(sessions) :
            /\ sessions[k].duration = "still logged in"
            /\ sessions[k].duration
                    = format_duration(sessions[k].start_time, sessions[k].end_time)
        /\ (Len(logs) = 1 /\ IsStart(1) /\ UserOf(logs[1]) = "alice"
                /\ WorkspaceName(logs[1]) = "dev1")
            => /\ Len(result) = 1
               /\ result[1].username = "alice"
               /\ result[1].terminal = "dev1"
               /\ result[1].end_time = None
               /\ result[1].duration = "still logged in"

\* alice's start on dev1 and nothing else
C17_Witness ==
    /\ lpc = "done"
    /\ Len(logs) = 1
    /\ IsStart(1)
    /\ UserOf(logs[1]) = "alice"
    /\ WorkspaceName(logs[1]) = "dev1"
    /\ Len(result) = 1
    /\ result[1].duration = "still logged in"

(***************************************************************************)
(* C18, as stated: the batch is deduplicated: within one run no event id   *)
(* is processed more than once, whatever pages the server returns.         *)
(***************************************************************************)
C18_NoIdProcessedTwice ==
    \A i, j \in 1..Len(Delivered) :
        (i # j /\ Delivered[i].id # None) => Delivered[i].id # Delivered[j].id

(***************************************************************************)
(* C18, amended: the batch is not deduplicated: every event of every page  *)
(* received is processed, once per delivery, so an event id the server     *)
(* returns n times is counted n times; no id is counted twice only when    *)
(* the server returns no id twice.                                         *)
(***************************************************************************)
C18_CountedOncePerDelivery ==
    LET d == Delivered
        n == Len(d)
    IN /\ Total(action_counts) = n
       /\ connection_count =
             Cardinality({i \in 1..n : d[i].action \in connection_actions})
       /\ \A i \in 1..n :
            /\ d[i].action \in DOMAIN action_counts
            /\ action_counts[d[i].action] >=
                  Cardinality({j \in 1..n : d[j] = d[i]})

\* a run that ended normally after the server returned one id on every place
\* of two pages
C18_Witness ==
    /\ pc = "done"
    /\ exit = "short"
    /\ Len(Delivered) > PageLimit
    /\ Delivered[1].id # None
    /\ \A i \in 1..Len(Delivered) : Delivered[i].id = Delivered[1].id
    /\ connection_count = Len(Delivered)

\* the time of every start event in the audit logs parses
WellTimed == \A i \in 1..Len(tlogs) : TtlIsStart(tlogs[i]) => Parses(tlogs[i].time)
\* the workspaces that have a start event in the audit logs
StartedWorkspaces == {tlogs[i].workspace_id : i \in {j \in 1..Len(tlogs) : TtlIsStart(tlogs[j])}}
\* the outcome of the last lookup made for a workspace
LastLookup(id) ==
    lookups[CHOOSE i \in 1..Len(lookups) :
                /\ lookups[i].workspace_id = id
                /\ \A j \in (i + 1)..Len(lookups) : lookups[j].workspace_id # id].outcome

(***************************************************************************)
(* C19: a failing workspace-detail lookup (not found, non-success answer   *)
(* or transport failure) never aborts the run: extract_workspace_activity  *)
(* returns, with an activity record for every workspace that was started,  *)
(* the record of a workspace whose lookup failed carrying unknown          *)
(* annotations, and the script does not exit with an error (in batches     *)
(* whose start events carry well-formed times).                            *)
(***************************************************************************)
C19_LookupFailureDegrades ==
    WellTimed =>
        /\ tpc # "raised"
        /\ status # "1"
        /\ tpc = "done" =>
            /\ {activities[i].workspace_id : i \in 1..Len(activities)} = StartedWorkspaces
            /\ \A i \in 1..Len(activities) :
                LastLookup(activities[i].workspace_id).status_code # 200 =>
                    /\ activities[i].ttl_ms = None
                    /\ activities[i].until_stop = None
                    /\ activities[i].template_name = "N/A"

\* the same with the transport failures left aside: a lookup answered with a
\* status other than 200 degrades to unknown annotations
C19_NonSuccessAnswerDegrades ==
    (WellTimed /\ \A i \in 1..Len(lookups) : lookups[i].outcome.kind = "answer") =>
        /\ tpc # "raised"
        /\ status # "1"
        /\ tpc = "done" =>
            /\ {activities[i].workspace_id : i \in 1..Len(activities)} = StartedWorkspaces
            /\ \A i \in 1..Len(activities) :
                LastLookup(activities[i].workspace_id).status_code # 200 =>
                    /\ activities[i].ttl_ms = None
                    /\ activities[i].until_stop = None
                    /\ activities[i].template_name = "N/A"

\* the event under the reader has no username
NoUsername == input.user \in {Absent, None} \/ input.username = Absent

(***************************************************************************)
(* C20: a missing field never propagates as an error, in the aggregation   *)
(* loop and in the session fold: reading the event raises nothing, an      *)
(* event without a username (absent user object, null user or absent       *)
(* username) is handled under the name "unknown", and an absent action,    *)
(* time, ip or additional_fields is replaced by its default.               *)
(***************************************************************************)
C20_MissingFieldNoError ==
    output # <<>> =>
        /\ output.raised = ""
        /\ (NoUsername /\ (output.by = "fold" \/ output.action = "login"))
            => output.user = "unknown"
        /\ input.action = Absent =>
            output.action = (IF output.by = "fold" THEN "" ELSE None)
        /\ output.by = "fold" =>
            /\ input.time = Absent => output.time_str = ""
            /\ input.ip = Absent => output.ip = ""
            /\ (input.additional_fields = Absent
                    /\ output.resource_type = "workspace_build")
                => output.workspace_name =
                      (IF input.resource_target = Absent THEN "workspace"
                       ELSE input.resource_target)

\* the same for events in which no key is present with null: every absent
\* key is replaced by its default and nothing is raised
C20_AbsentFieldDefaulted ==
    (output # <<>> /\ input.user # None /\ input.additional_fields # None) =>
        /\ output.raised = ""
        /\ (NoUsername /\ (output.by = "fold" \/ output.action = "login"))
            => output.user = "unknown"
        /\ input.action = Absent =>
            output.action = (IF output.by = "fold" THEN "" ELSE None)
        /\ output.by = "fold" =>
            /\ input.time = Absent => output.time_str = ""
            /\ input.ip = Absent => output.ip = ""
            /\ (input.additional_fields = Absent
                    /\ output.resource_type = "workspace_build")
                => output.workspace_name =
                      (IF input.resource_target = Absent THEN "workspace"
                       ELSE input.resource_target)

\* two lists hold the same elements, each as often
SameBag(a, b) ==
    /\ Len(a) = Len(b)
    /\ \A k \in 1..Len(a) :
        Cardinality({i \in 1..Len(a) : a[i] = a[k]})
            = Cardinality({i \in 1..Len(b) : b[i] = a[k]})

(***************************************************************************)
(* C14: the result of get_user_sessions does not depend on the delivery    *)
(* order: two calls given permutations of one batch build the same closed  *)
(* and open sessions, also when events of the batch share a timestamp.     *)
(***************************************************************************)
C14_DeliveryOrderIrrelevant ==
    (lpc = "done" /\ previous_run # <<>> /\ SameBag(previous_run[1].logs, logs)) =>
        SameBag(previous_run[1].sessions, sessions)

\* the same for batches in which no two events share a timestamp
C14_DistinctTimesOrderIrrelevant ==
    (/\ lpc = "done"
     /\ previous_run # <<>>
     /\ SameBag(previous_run[1].logs, logs)
     /\ \A i, j \in 1..Len(logs) : i # j => logs[i].time # logs[j].time) =>
        /\ previous_run[1].sessions = sessions
        /\ previous_run[1].result = result

\* the entries of the open-session map
Entries(d) == {d[i] : i \in 1..Len(d)}
\* the user and the untruncated entity name of the event being folded
CurrentPair == <<UserOf(Current), WorkspaceName(Current)>>
\* event i and event j belong to one user and to two workspaces whose names
\* agree on their first 24 characters
SamePrefix(i, j) ==
    /\ UserOf(sorted_logs[i]) = UserOf(sorted_logs[j])
    /\ WorkspaceName(sorted_logs[i]) # WorkspaceName(sorted_logs[j])
    /\ Len(WorkspaceName(sorted_logs[i])) > TerminalWidth
    /\ Truncate(WorkspaceName(sorted_logs[i]), TerminalWidth)
         = Truncate(WorkspaceName(sorted_logs[j]), TerminalWidth)

(***************************************************************************)
(* C21: identity matching uses the untruncated entity name.  A start, stop *)
(* or delete of one workspace leaves the open session of every workspace   *)
(* of the same user whose name agrees with it on the first 24 characters   *)
(* and differs afterwards as it is; the open-session map keeps the full    *)
(* name, so the two are counted as separate sessions (as many sessions as  *)
(* starts not overwritten by a start of the same full name, as many closed *)
(* sessions as start/close pairs of the same full name); only the terminal *)
(* of a session record is cut to 24 characters.                            *)
(***************************************************************************)
C21_UntruncatedIdentity ==
    /\ [][(Folding /\ (IsStart(idx + 1) \/ IsClose(idx + 1))) =>
            \A e \in Entries(user_sessions) :
                (/\ e.value.user = UserOf(Current)
                 /\ e.value.workspace # WorkspaceName(Current)
                 /\ Truncate(e.value.workspace, TerminalWidth)
                      = Truncate(WorkspaceName(Current), TerminalWidth))
                => e \in Entries(user_sessions')]_vars
    /\ [](/\ \A e \in Entries(user_sessions) :
               \E i \in 1..idx : IsStart(i) /\ e.value.workspace = WorkspaceName(sorted_logs[i])
          /\ \A k \in 1..Len(sessions) :
               /\ Len(sessions[k].terminal) <= TerminalWidth
               /\ \E i \in 1..idx :
                    /\ IsStart(i) \/ IsClose(i)
                    /\ sessions[k].terminal
                         = Truncate(WorkspaceName(sorted_logs[i]), TerminalWidth)
          /\ Cardinality(ClosedIn(sessions)) = Cardinality(ClosedPairs(idx))
          /\ lpc = "done" =>
               Len(sessions) = Cardinality(Starts(idx)) - Cardinality(OverwrittenStarts(idx)))

\* a finished run: a start of one long-named workspace, then a stop of the
\* other; the session of the first is still open and nothing was closed
C21_Witness ==
    /\ lpc = "done"
    /\ \E i, j \in 1..idx :
        /\ i < j
        /\ IsStart(i)
        /\ IsClose(j)
        /\ SamePrefix(i, j)
        /\ ClosedIn(sessions) = {}
        /\ \E k \in OpenIn(result) :
            /\ result[k].start_time = sorted_logs[i].time
            /\ Len(result[k].terminal) = TerminalWidth
            /\ result[k].terminal # WorkspaceName(sorted_logs[i])

(***************************************************************************)
(* C28: events with different SessionKeys are never correlated.  Whatever  *)
(* the names, a stop or delete closes only a session opened by an event of *)
(* the same (user, entity name) pair, and a start, stop or delete leaves   *)
(* the open session of every other pair as it is.                          *)
(***************************************************************************)
C28_DifferentPairsNeverCorrelated ==
    [][(Folding /\ (IsStart(idx + 1) \/ IsClose(idx + 1))) =>
        \A e \in Entries(user_sessions) :
            <<e.value.user, e.value.workspace>> # CurrentPair
                => e \in Entries(user_sessions')]_vars

\* the same for pairs of names without ':'
C28_PlainNamesNeverCorrelated ==
    [][(Folding /\ (IsStart(idx + 1) \/ IsClose(idx + 1))) =>
        \A e \in Entries(user_sessions) :
            (/\ <<e.value.user, e.value.workspace>> # CurrentPair
             /\ Current \notin {Event(w, a, t, "workspace_build", ip) :
                    w \in ColonWho, a \in {"start", "stop"}, t \in {Early, Late},
                    ip \in {"10.0.0.1", "10.0.0.2"}})
                => e \in Entries(user_sessions')]_vars

(***************************************************************************)
(* C22: a malformed timestamp is recovered locally.  An event whose time   *)
(* fails to parse never aborts the batch: the run of                       *)
(* extract_workspace_activity returns and the report is printed unless a   *)
(* workspace lookup failed below HTTP, and the record of an event with a   *)
(* malformed time shows the literal "unknown" as its time.                 *)
(***************************************************************************)
C22_MalformedTimeRecovered ==
    /\ tpc = "raised" => (lookups # <<>> /\ Last(lookups).outcome.kind # "answer")
    /\ \A i \in 1..Len(workspace_latest) :
        ~Parses(workspace_latest[i].value.log_time)
            => workspace_latest[i].value.start_time = "unknown"

\* batches in which every time parses are never aborted over a timestamp
C22_WellFormedTimesNoAbort ==
    WellTimed =>
        (tpc = "raised" => (lookups # <<>> /\ Last(lookups).outcome.kind # "answer"))

(***************************************************************************)
(* C24: cursor propagation.  The first request of a run carries no         *)
(* after_id; every later request follows a full page and carries after_id  *)
(* equal to the id of the last event of that page; limit, after_time and   *)
(* before_time are the same in every request.                              *)
(***************************************************************************)
C24_CursorPropagated ==
    [][requests' = requests + 1 =>
        /\ Params.limit = PageLimit
        /\ Params.after_time = start_iso
        /\ Params.before_time = end_iso
        /\ IF requests = 0
           THEN "after_id" \notin DOMAIN Params
           ELSE /\ Len(Last(pages)) = PageLimit
                /\ "after_id" \in DOMAIN Params
                /\ Params.after_id = Last(Last(pages)).id]_vars

\* the same for the stores in which every id is true in Python
C24_CursorPropagatedTruthyIds ==
    [][(requests' = requests + 1 /\ \A i \in 1..Len(store) : Truthy(store[i].id)) =>
        /\ Params.limit = PageLimit
        /\ Params.after_time = start_iso
        /\ Params.before_time = end_iso
        /\ IF requests = 0
           THEN "after_id" \notin DOMAIN Params
           ELSE /\ Len(Last(pages)) = PageLimit
                /\ "after_id" \in DOMAIN Params
                /\ Params.after_id = Last(Last(pages)).id]_vars

(***************************************************************************)
(* C23: end-of-range rule.  The loop ends normally on an empty page and on *)
(* a page with fewer than PageLimit events, the events of the short page   *)
(* being counted before the exit; against a paging server that holds N     *)
(* events a finished run has issued exactly N \div PageLimit + 1 requests, *)
(* the last of which returned an empty page when N is a positive multiple  *)
(* of PageLimit.                                                           *)
(***************************************************************************)
C23_EndOfRange ==
    pc = "done" =>
        /\ requests = Len(store) \div PageLimit + 1
        /\ exit = IF Len(store) % PageLimit = 0 THEN "empty" ELSE "short"
        /\ exit = "short" =>
            /\ Len(Last(pages)) < PageLimit
            /\ Total(action_counts) = Len(store)
        /\ exit = "empty" => Len(pages) = requests - 1

\* the same for the stores in which every id is true in Python
C23_EndOfRangeTruthyIds ==
    (pc = "done" /\ \A i \in 1..Len(store) : Truthy(store[i].id)) =>
        /\ requests = Len(store) \div PageLimit + 1
        /\ exit = IF Len(store) % PageLimit = 0 THEN "empty" ELSE "short"
        /\ exit = "short" =>
            /\ Len(Last(pages)) < PageLimit
            /\ Total(action_counts) = Len(store)
        /\ exit = "empty" => Len(pages) = requests - 1

(***************************************************************************)
(* C25: only events with resource_type workspace_build take part in the    *)
(* session fold.  Two calls of get_user_sessions with the same limit, on   *)
(* batches of which one is the other with any of its events of another     *)
(* resource type removed, build the same session list and return the same  *)
(* sessions.                                                               *)
(***************************************************************************)
C25_OtherTypesIgnored ==
    (lpc = "done" /\ previous_run # <<>>) =>
        /\ sessions = previous_run[1].sessions
        /\ result = previous_run[1].result

\* both calls finished; the first batch held a start of another resource type
\* among workspace_build events, the second did not, and a session was returned
C25_Witness ==
    /\ lpc = "done"
    /\ previous_run # <<>>
    /\ Len(logs) < Len(previous_run[1].logs)
    /\ \A i \in 1..Len(logs) : logs[i].resource_type = "workspace_build"
    /\ \E i \in 1..Len(previous_run[1].logs) :
        /\ previous_run[1].logs[i].resource_type # "workspace_build"
        /\ previous_run[1].logs[i].action = "start"
    /\ result # <<>>

\* the starts, stops and deletes of the key of event i among the first n events
LifeOfKey(i, n) == {j \in 1..n : (IsStart(j) \/ IsClose(j)) /\ KeyAt(j) = KeyAt(i)}
\* they are consecutive start/close pairs: start, close, start, close, ...
Alternating(i, n) ==
    LET life == LifeOfKey(i, n)
    IN /\ Cardinality(life) % 2 = 0
       /\ \A j \in life :
            IsStart(j) <=> (Cardinality({l \in life : l <= j}) % 2 = 1)

(***************************************************************************)
(* C26: session lifecycle per key.  A stop or a delete whose key has an    *)
(* open session appends one closed session (the start time of the open     *)
(* session, the time of the closing event) and removes the key from the    *)
(* open map; a start leaves the session list, and so every session already *)
(* closed, as it is and opens a session for its key.  A key whose events   *)
(* in the order of the fold are k consecutive start/close pairs has        *)
(* exactly k closed sessions in the session list the fold builds, one for  *)
(* each pair, and no open session.                                         *)
(***************************************************************************)
C26_SessionLifecycle ==
    /\ [][(Folding /\ IsClose(idx + 1) /\ CurrentKey \in Keys(user_sessions)) =>
            /\ CurrentKey \notin Keys(user_sessions')
            /\ Len(sessions') = Len(sessions) + 1
            /\ SubSeq(sessions', 1, Len(sessions)) = sessions
            /\ Last(sessions').start_time = Get(user_sessions, CurrentKey).start_time
            /\ Last(sessions').end_time = Current.time]_vars
    /\ [][(Folding /\ IsStart(idx + 1)) =>
            /\ sessions' = sessions
            /\ CurrentKey \in Keys(user_sessions')
            /\ Get(user_sessions', CurrentKey).start_time = Current.time]_vars
    /\ [](lpc = "done" =>
            \A i \in 1..idx :
                ((IsStart(i) \/ IsClose(i)) /\ Alternating(i, idx)) =>
                    /\ Cardinality({k \in OfKey(sessions, i) : ~IsOpen(sessions[k])}) * 2
                         = Cardinality(LifeOfKey(i, idx))
                    /\ \A k \in OfKey(sessions, i) : ~IsOpen(sessions[k])
                    /\ \A j \in LifeOfKey(i, idx) :
                         IsStart(j) =>
                            \E k \in OfKey(sessions, i) :
                                /\ sessions[k].start_time = sorted_logs[j].time
                                /\ sessions[k].end_time
                                     = sorted_logs[NextOfKey(j, idx)].time)

\* a finished run in which one key was started, closed, started again and
\* closed again, once by a stop and once by a delete: two closed sessions
C26_Witness ==
    /\ lpc = "done"
    /\ \E i \in 1..idx :
        /\ IsStart(i)
        /\ Alternating(i, idx)
        /\ Cardinality(LifeOfKey(i, idx)) = 4
        /\ \E j, l \in LifeOfKey(i, idx) :
            sorted_logs[j].action = "stop" /\ sorted_logs[l].action = "delete"
        /\ Cardinality({k \in OfKey(sessions, i) : ~IsOpen(sessions[k])}) = 2
        /\ OpenIn(sessions) = {}

\* the positions of the start events of a workspace in the audit logs
StartsOf(id) == {i \in 1..Len(tlogs) : TtlIsStart(tlogs[i]) /\ tlogs[i].workspace_id = id}

(***************************************************************************)
(* C27: extract_workspace_activity keeps only the latest start per         *)
(* workspace.  Whatever the order of the logs, when it returns it returns  *)
(* exactly one record for every workspace_id that a workspace_build start  *)
(* event carries and no other record, and the record of a workspace        *)
(* carries the greatest time among the start events of that workspace.     *)
(***************************************************************************)
C27_LatestStartKept ==
    tpc = "done" =>
        /\ Len(activities) = Cardinality(StartedWorkspaces)
        /\ \A id \in StartedWorkspaces :
            /\ Cardinality({k \in 1..Len(activities) : activities[k].workspace_id = id}) = 1
            /\ \A k \in 1..Len(activities) :
                activities[k].workspace_id = id =>
                    /\ \E i \in StartsOf(id) : tlogs[i].time = activities[k].log_time
                    /\ \A i \in StartsOf(id) :
                        TimeRank(tlogs[i].time) <= TimeRank(activities[k].log_time)
                    /\ activities[k].start_time = TtlFormatTime(activities[k].log_time)

\* the later start of a workspace came first in the logs and its earlier start
\* second, with a start of nothing else: one record, with the later time
C27_Witness ==
    /\ tpc = "done"
    /\ Len(tlogs) = 2
    /\ TtlIsStart(tlogs[1]) /\ TtlIsStart(tlogs[2])
    /\ tlogs[1].workspace_id = tlogs[2].workspace_id
    /\ tlogs[1].time = Late /\ tlogs[2].time = Early
    /\ Len(activities) = 1
    /\ activities[1].log_time = Late
    /\ activities[1].start_time = "2024-01-01 11:30:00"

\* the stops and deletes among the first n events
Closes(n) == {i \in 1..n : IsClose(i)}
\* the start/close pair whose close is the k-th close that found an open session
PairOfRank(k, n) ==
    CHOOSE p \in ClosedPairs(n) :
        Cardinality({q \in ClosedPairs(n) : q[2] <= p[2]}) = k

(***************************************************************************)
(* C29: every closed session produced by the fold pairs one                *)
(* workspace_build start event with one stop or delete event of the same   *)
(* key that comes after it in the sort order, so that end_time >=          *)
(* start_time as strings; no event is used by two sessions: during the     *)
(* fold the k-th session of the list is the one built from the k-th pair   *)
(* of a start and the close that follows it, there are at most as many     *)
(* sessions, open and closed, as start events and at most as many closed   *)
(* sessions as stop and delete events.                                     *)
(***************************************************************************)
C29_ClosedSessionPairsEvents ==
    /\ \A k \in ClosedIn(sessions) :
        /\ TimeRank(sessions[k].start_time) <= TimeRank(sessions[k].end_time)
        /\ \E p \in ClosedPairs(idx) :
            /\ p[1] < p[2]
            /\ k \in OfKey(sessions, p[1])
            /\ sessions[k].start_time = sorted_logs[p[1]].time
            /\ sessions[k].end_time = sorted_logs[p[2]].time
    /\ lpc = "fold" =>
        /\ Len(sessions) = Cardinality(ClosedPairs(idx))
        /\ \A k \in 1..Len(sessions) :
            LET p == PairOfRank(k, idx)
            IN sessions[k] = ClosedSession(sorted_logs[p[2]], Ongoing(sorted_logs[p[1]]))
    /\ Cardinality(ClosedIn(sessions)) = Cardinality(ClosedPairs(idx))
    /\ Cardinality(ClosedIn(sessions)) <= Cardinality(Closes(idx))
    /\ (IF lpc = "done" THEN Len(sessions) ELSE Len(sessions) + Len(user_sessions))
          <= Cardinality(Starts(idx))

\* a finished run whose batch was not delivered in time order: a closed
\* session that ends later than it starts, and a stop that closed nothing
C29_Witness ==
    /\ lpc = "done"
    /\ logs # sorted_logs
    /\ \E k \in ClosedIn(sessions) :
        TimeRank(sessions[k].start_time) < TimeRank(sessions[k].end_time)
    /\ Cardinality(ClosedIn(sessions)) < Cardinality(Closes(idx))

(***************************************************************************)
(* C30: get_user_sessions returns at most `limit` sessions: the first      *)
(* `limit` of the list sorted by start_time, most recent first.  When the  *)
(* fold produced more, every session that is dropped, open or closed,      *)
(* starts no later than every session that is returned.                    *)
(***************************************************************************)
C30_LatestSessionsReturned ==
    lpc = "done" =>
        /\ Len(result) <= limit
        /\ Len(result) = Min(limit, Len(sessions))
        /\ result = SubSeq(sessions, 1, Len(result))
        /\ \A k \in 1..Len(result) :
            \A l \in (Len(result) + 1)..Len(sessions) :
                TimeRank(sessions[l].start_time) <= TimeRank(result[k].start_time)

\* more sessions than `limit`: the closed session of a workspace that was
\* started again later is dropped, the two open sessions are returned
C30_Witness ==
    /\ lpc = "done"
    /\ limit = 2
    /\ Len(sessions) = 3
    /\ IsOpen(result[1]) /\ IsOpen(result[2])
    /\ ~IsOpen(sessions[3])
    /\ TimeRank(sessions[3].start_time) < TimeRank(result[2].start_time)

====
